---- MODULE Spec2Model ----
(***************************************************************************)
(* Verification model of the SNMP collector:                               *)
(*   - scheduler    (scheduler.go, kept in src/docs/poller.md 154-343)      *)
(*   - connection pool (src/pkg/snmpcollector/poller/session.go 167-369)    *)
(*   - worker pool  (src/pkg/snmpcollector/poller/worker.go)                *)
(*   - application pipeline and shutdown (src/pkg/snmpcollector/app/app.go) *)
(*   - decode and produce stages (src/snmp/decoder, src/producer/metrics)   *)
(*   - counter state (src/producer/metrics/poll.go, CounterState)           *)
(*   - trap receiver (src/pkg/snmpcollector/trapreceiver)                   *)
(*   - SNMPPoller.Poll over the connection pool (src/unnamed/part_004)      *)
(*   - the SNMP operation of a poll: doGet, doWalk, doBulkWalk (part_004)   *)
(*   - SNMPDecoder.Decode of one raw result (src/unnamed/part_008)          *)
(*   - matching of one PDU OID against the attributes (varbind.go)          *)
(*   - reuse of the idle sessions of one device (session.go, popIdle)       *)
(*   - resolution of the configuration into poll jobs (resolve.go)          *)
(*   - the per-device limit of a Get (session.go, getOrCreatePool)          *)
(*   - callers blocked in Get (session.go, the select of Get)               *)
(*   - the counter keys of the objects of one device (poll.go, CounterKey)  *)
(* Each component has its own specification (SpecSched, SpecPool, SpecApp,  *)
(* SpecTrace, SpecAppLive, SpecWorker, SpecPipe, SpecCounter, SpecReceiver, *)
(* SpecReceiverLive, SpecPoll, SpecOper, SpecDec, SpecMatch, SpecReuse,     *)
(* SpecResolve, SpecLimit, SpecKey, SpecWait, SpecWaitLive); the variables  *)
(* of the other components stay parked at their initial values.             *)
(***************************************************************************)
EXTENDS Integers, Sequences, FiniteSets, TLC

VARIABLES
    \* ---- scheduler (Scheduler struct, Start loop locals, Reload callers)
    now,          \* wall clock, whole seconds
    entArr,       \* s.entries: backing array the slice header points to
    entLen,       \* s.entries: length word of the slice header
    mu,           \* s.mu: "free", "loop" or the reloader holding it
    loopPc,       \* position of the Start goroutine
    loopNext,     \* Start: next (earliest nextRun the timer was armed for)
    loopNow,      \* Start: now := time.Now() read on wake
    rangeN,       \* Start: length fixed by "for i := range s.entries"
    fireI,        \* Start: loop index i (1-based)
    fireJ,        \* fireEntry: index of the next job of e.jobs (1-based)
    curEntry,     \* fireEntry: the entry e points to
    schedCtx,     \* ctx passed to Start: TRUE once cancelled
    rPc,          \* position of each Reload caller
    rNew,         \* Reload: newEntries
    rCfg,         \* Reload: cfg argument
    reloadsLeft,  \* Reload calls still to be issued
    queue,        \* JobSubmitter: the WorkerPool's jobs channel
    \* ---- scheduler history (observations, never read by the program)
    passStart,    \* entry list when the firing pass took the lock
    passCalls,    \* TrySubmit calls of the current pass: job and result
    passDone,     \* TRUE from the end of a firing pass to the next one
    gone,         \* hosts removed by a returned Reload, not re-added since
    pendingNew,   \* hosts added by a Reload and not dispatched since
    supplied,     \* snapshots handed to Reload so far
    \* ---- connection pool (ConnectionPool, devicePool, callers of Get/Put)
    poolClosed,   \* p.closed has been closed
    pmuW,         \* p.mu is write-locked by Close
    semCap,       \* cap(dp.sem) per hostname, 0 while the device has no pool
    sem,          \* len(dp.sem) per hostname: slots taken
    idle,         \* dp.idle per hostname: stack of [conn, returnedAt]
    cPc,          \* position of each caller
    cHost,        \* hostname argument of the caller's current call
    cConn,        \* the session the caller holds, "nil" for none
    closePc,      \* position of the caller of Close
    drained,      \* Close: device pools already drained in this call
    \* ---- history, read by the properties only
    putAfterClose, \* per caller: its current Put began after Close returned
    dialFails,    \* history: Get calls that returned the error of Dial
    getRejected,  \* history: a Get was turned away by the check of p.closed
    \* ---- application (App, WorkerPool, TrapReceiver, stage goroutines)
    aPc,          \* position of the caller of App.Start and App.Stop
    stopIdx,      \* App.Stop: index of the step to run next
    trapStarted,  \* Start: a.trapReceiver is set and running
    trapBindFailed, \* history: trapReceiver.Start returned an error to Start
    schedEntries, \* len(a.sched.entries) > 0: the scheduler has devices to poll
    traced,       \* history: one poll result followed through the pipeline
    pipeCtx,      \* pipeCtx has been cancelled
    schedGo,      \* the goroutine running a.sched.Start: off, run, done
    wPc,          \* position of each poller worker
    stPc,         \* position of each stage goroutine
    closerPc,     \* the goroutine that closes formattedCh: off, wait, done
    buf,          \* number of buffered values per channel
    closes,       \* number of close() calls made per channel
    formatWg,     \* counter of a.formatWg
    wg,           \* counter of a.wg
    trRunning,    \* TrapReceiver.running
    trMu,         \* holder of TrapReceiver.mu: free, app, watcher
    trListen,     \* trap listener goroutine: off, listening, closing, done
    trWatcher,    \* goroutine watching ctx for the receiver: off, wait, stop, done
    transportClosed,  \* a.transport.Close has run
    connPoolClosed,   \* a.connPool.Close has run
    \* ---- history, read by the properties only
    sentOnClosed, \* channels on which a send hit a closed channel
    stopLog,      \* steps of App.Stop completed so far, in order
    \* ---- worker pool on its own (WorkerPool, worker)
    wkPc,         \* position of each worker: off, recv, send, done
    wkHeld,       \* the poll result a worker is about to send
    wkJobs,       \* len(w.jobs)
    wkJobsClosed, \* w.jobs has been closed
    wkOutput,     \* w.output: the buffered poll results, oldest first
    wkCtx,        \* the context given to WorkerPool.Start has been cancelled
    wkDiscarded,  \* history: results dropped by a worker that held them
    wkSkips,      \* history, per worker: polls it skipped (error, no varbinds)
    \* ---- decode and produce stages (startDecodeStage, startProduceStage)
    dPc,          \* where the one poll result in the pipeline is
    dCounters,    \* p.counters != nil
    dRaw,         \* the RawPollResult on rawCh: its PDUs
    dAt,          \* its CollectedAt
    dDecoded,     \* the DecodedPollResult on decodedCh: its varbinds
    dMetrics,     \* the SNMPMetric on metricCh: its Metrics
    dSeeded,      \* history: counter keys the last Build found no state for
    \* ---- counter state (CounterState)
    entries,      \* s.entries: counterEntry per key, NoCounterEntry when absent
    csMu,         \* holder of s.mu, "free" when unlocked
    kPc,          \* position of each caller of Delta, Remove and Purge
    kKey,         \* the caller's key argument
    kCur,         \* Delta: the caller's current argument
    kNow,         \* Delta: the caller's now argument
    kPrev,        \* Delta: prev, as read from s.entries
    \* ---- counter history, read by the properties only
    kAfterDelete, \* the caller's Delta was the first on its key since a delete
    hDeleted,     \* keys deleted by Remove or Purge and not stored since
    hSeed,        \* per key: the value stored by its last re-seeding Delta
    hSum,         \* per key: sum of the deltas returned since then
    \* ---- trap receiver on its own (TrapReceiver, callers of Start and Stop)
    rvStart,      \* the caller of Start: new, waiting, ok, failed
    rvRunning,    \* r.running
    rvMu,         \* holder of r.mu, "free" when unlocked
    rvListen,     \* the goroutine in tl.Listen: off, binding, listening, closed, done
    rvStopCloses, \* number of close(r.stopCh) executed
    rvOutCloses,  \* number of close(r.output) executed
    rvCtx,        \* the ctx given to Start has been cancelled
    rvWatcher,    \* the goroutine watching ctx: off, wait, stop, held, done
    rvPc,         \* position of each caller of Stop: idle, held
    rvCalls,      \* Stop calls each caller has begun
    rvReturned,   \* history: Stop calls that have returned
    rvOut,        \* number of traps buffered in r.output
    rvDrops,      \* history: traps dropped by handleTrap on a full buffer
    \* ---- SNMPPoller.Poll on top of the connection pool
    opRes,        \* per caller of Poll: outcome of its SNMP operation
    \* ---- the SNMP operation of one poll (doGet, doWalk, doBulkWalk)
    oPc,          \* idle, job (operation about to run), ran
    oJob,         \* the PollJob: object definition, version, conn.MaxOids
    oRes,         \* what the operation returned: PDUs and error
    \* ---- one call of SNMPDecoder.Decode
    xPc,          \* idle, called, returned
    xRaw,         \* raw.Varbinds of the call
    xOut,         \* what Decode returned: varbinds and error
    \* ---- one PDU through matchAttribute, Parse and Build, OIDs as strings
    mPc,          \* idle, pdu (a PDU was received), metric (its Metric is built)
    mName,        \* pdu.Name
    mMetric,      \* OID and Instance of the Metric, whether one was produced
    \* ---- reuse of the idle sessions of one device (Get, Put, popIdle)
    uIdle,        \* dp.idle: stack of [conn, returnedAt], sessions told apart
    uOrder,       \* history: the idle sessions in the order of their Put calls
    uHeld,        \* sessions handed out by Get and not yet given back
    uNow,         \* time.Now() of this pool
    uGot,         \* history: the last Get, the stack it found and what it left
    uOpt,         \* PoolOptions.MaxIdlePerDevice as given to NewConnectionPool
    uSem,         \* len(dp.sem): the slots taken
    uPut,         \* history: the Put that has just returned, what it found
    \* ---- ResolveJobs over one loaded configuration
    zPc,          \* idle, done (ResolveJobs has returned)
    zCfg,         \* the *config.LoadedConfig it was given
    zJobs,        \* the []poller.PollJob it returned
    \* ---- the concurrency limit of the devices of one ConnectionPool
    qCap,         \* cap(dp.sem) per hostname, 0 while p.pools has no entry
    qSem,         \* len(dp.sem) per hostname: the slots taken
    qGot,         \* history: the last Get that handed out a session
    \* ---- callers waiting in Get for a slot of one device
    tPc,          \* per caller: idle, acquire (in the select of Get), using
    tSem,         \* len(dp.sem)
    tCtx,         \* per caller: the context of its Get is done
    tClosed,      \* p.closed has been closed
    tWaited,      \* history, per caller: its Get found no case ready
    tRes,         \* history, per caller: how its last Get returned
    \* ---- counter state shared by the objects polled on a device
    yEntries,     \* CounterState.entries, by CounterKey
    yNow,         \* the CollectedAt of the next poll result
    yPolls,       \* poll results produced so far
    ySrc,         \* history, per key: the attribute whose sample is stored
    yOut          \* history: the last Delta call made by Build

schedRest == <<entArr, entLen, mu, loopPc, loopNext, loopNow, rangeN,
               fireI, fireJ, curEntry, schedCtx, rPc, rNew, rCfg, reloadsLeft,
               queue, passStart, passCalls, passDone, gone,
               pendingNew, supplied>>
schedVars == <<now, schedRest>>

poolVars == <<poolClosed, pmuW, semCap, sem, idle, cPc, cHost,
              cConn, closePc, drained, putAfterClose, dialFails,
              getRejected>>
appVars == <<aPc, stopIdx, trapStarted, trapBindFailed, schedEntries, traced,
             pipeCtx, schedGo, wPc, stPc, closerPc,
             buf, closes, formatWg, wg, trRunning, trMu, trListen, trWatcher,
             transportClosed, connPoolClosed, sentOnClosed, stopLog>>
workerVars == <<wkPc, wkHeld, wkJobs, wkJobsClosed, wkOutput, wkCtx,
               wkDiscarded, wkSkips>>
pipeVars == <<dPc, dCounters, dRaw, dAt, dDecoded, dMetrics, dSeeded>>
counterRest == <<csMu, kPc, kKey, kCur, kNow, kPrev, kAfterDelete,
                 hDeleted, hSeed, hSum>>
counterVars == <<entries, counterRest>>
rvTrapVars == <<rvOut, rvDrops>>
receiverVars == <<rvStart, rvRunning, rvMu, rvListen, rvStopCloses, rvOutCloses,
                  rvCtx, rvWatcher, rvPc, rvCalls, rvReturned, rvTrapVars>>
pollVars == <<opRes>>
operVars == <<oPc, oJob, oRes>>
decVars == <<xPc, xRaw, xOut>>
matchVars == <<mPc, mName, mMetric>>
reuseVars == <<uIdle, uOrder, uHeld, uNow, uGot, uOpt, uSem, uPut>>
resolveVars == <<zPc, zCfg, zJobs>>
limitVars == <<qCap, qSem, qGot>>
waitVars == <<tPc, tSem, tCtx, tClosed, tWaited, tRes>>
keyVars == <<yEntries, yNow, yPolls, ySrc, yOut>>
extVars == <<workerVars, pipeVars, counterVars, receiverVars, pollVars,
             operVars, decVars, matchVars, reuseVars, resolveVars, limitVars, waitVars, keyVars>>
vars == <<schedVars, poolVars, appVars, extVars>>

(***************************************************************************)
(* Bounds of the model.                                                    *)
(***************************************************************************)
MaxTime == 2        \* the clock stops advancing here
MaxPdus == 3        \* most PDUs in one poll result
MaxStops == 2       \* most Stop calls one caller makes
MaxReloads == 2     \* Reload calls issued in one run
QueueCap == 1       \* capacity of the job queue seen by the scheduler
MaxIdlePerDevice == 1   \* PoolOptions.MaxIdlePerDevice chosen for the pool
IdleTimeout == 1        \* PoolOptions.IdleTimeout chosen for the pool, seconds
PollerWorkers == 2      \* app.Config.PollerWorkers
BufferSize == 1         \* app.Config.BufferSize: capacity of the stage channels
OutputBufferSize == 1   \* trapreceiver.Config.OutputBufferSize

(***************************************************************************)
(* Configuration snapshots.                                                *)
(***************************************************************************)
Hosts == {"a", "b"}
HostOrder == <<"a", "b">>      \* sort.Strings order of the hostnames
Reloaders == {"r1", "r2"}
NoEntry == [hostname |-> "", interval |-> 0, nextRun |-> 0, jobs |-> << >>]
DefaultInterval == 60

\* One device of a snapshot: its poll interval and the object keys it resolves to.
DeviceOf(h) ==
    IF h = "a" THEN [PollInterval |-> 2, objects |-> <<"ifEntry", "system">>]
               ELSE [PollInterval |-> 1, objects |-> <<"ifEntry">>]

CfgOf(hs) == [h \in hs |-> DeviceOf(h)]
InitialCfg == CfgOf({"a"})
Snapshots == {CfgOf({"a", "b"}), CfgOf({"b"}), CfgOf({})}

(***************************************************************************)
(* Scheduler: pure helpers.                                                *)
(***************************************************************************)
RECURSIVE Flatten(_)
Flatten(ss) == IF ss = << >> THEN << >> ELSE Head(ss) \o Flatten(Tail(ss))

\* The orders in which the elements of a finite set can be listed.
ListingsOf(S) ==
    {p \in [1..Cardinality(S) -> S] : \A i, j \in 1..Cardinality(S) : p[i] = p[j] => i = j}

\* ResolveJobs: one PollJob per object of each device, devices in sorted order.
ResolveJobs(cfg) ==
    Flatten([i \in 1..Len(HostOrder) |->
        IF HostOrder[i] \in DOMAIN cfg
        THEN [k \in 1..Len(cfg[HostOrder[i]].objects) |->
                 [Hostname |-> HostOrder[i],
                  PollInterval |-> cfg[HostOrder[i]].PollInterval,
                  ObjectDef |-> cfg[HostOrder[i]].objects[k]]]
        ELSE << >>])

\* jobsByHostname: the flat job list grouped by hostname, order kept.
jobsByHostname(jobs) ==
    [h \in {jobs[i].Hostname : i \in 1..Len(jobs)} |->
        SelectSeq(jobs, LAMBDA j : j.Hostname = h)]

\* buildEntries, the entry made for one hostname at time t.
EntryFor(h, jobs, t) ==
    [hostname |-> h,
     interval |-> IF jobs[1].PollInterval <= 0 THEN DefaultInterval
                  ELSE jobs[1].PollInterval,
     nextRun  |-> t,
     jobs     |-> jobs]

\* buildEntries: one entry per device with jobs, nextRun = now; the entries
\* come in the iteration order of a Go map, which is any order.
buildEntries(cfg, t) ==
    LET byHost == jobsByHostname(ResolveJobs(cfg))
        hs == {h \in DOMAIN byHost : Len(byHost[h]) > 0}
    IN  {[i \in 1..Cardinality(hs) |-> EntryFor(p[i], byHost[p[i]], t)] :
            p \in ListingsOf(hs)}

\* s.entries as the slice header shows it: the first entLen cells of the array.
HeaderOk == entLen = Len(entArr)
Entries == SubSeq(entArr, 1, IF entLen <= Len(entArr) THEN entLen ELSE Len(entArr))
HostsIn(es) == {es[i].hostname : i \in 1..Len(es)}
NextRunIn(es, h) == es[CHOOSE i \in 1..Len(es) : es[i].hostname = h].nextRun

\* sort.Slice by nextRun (not stable): any arrangement in nextRun order.
SortedByNextRun(es) ==
    {p \in [1..Len(es) -> {es[i] : i \in 1..Len(es)}] :
        /\ \A i \in 1..Len(es) : \E k \in 1..Len(es) : p[k] = es[i]
        /\ \A i, k \in 1..Len(es) : i < k => ~(p[k].nextRun < p[i].nextRun)}

\* Start line 257: the firing loop goes on while the entry's nextRun is not
\* after now.
DueStrictlyBefore(e, t) == e.nextRun < t
Due(e, t) == ~(e.nextRun > t)

\* WorkerPool.TrySubmit: non-blocking send on the jobs channel.
TrySubmitBlocking(q, job) ==
    IF Len(q) < QueueCap THEN {[queue |-> Append(q, job), ok |-> TRUE]} ELSE {}
TrySubmit(q, job) ==
    IF Len(q) < QueueCap THEN {[queue |-> Append(q, job), ok |-> TRUE]}
                         ELSE {[queue |-> q, ok |-> FALSE]}


(***************************************************************************)
(* Scheduler: state machine.                                               *)
(***************************************************************************)
SchedFrame == UNCHANGED <<poolVars, appVars, extVars>>

\* New: entries built from the initial snapshot; nothing started yet.
SchedInit ==
    /\ now = 0
    /\ entArr \in buildEntries(InitialCfg, 0)
    /\ entLen = Len(entArr)
    /\ mu = "free"
    /\ loopPc = "top"
    /\ loopNext = 0
    /\ loopNow = 0
    /\ rangeN = 0
    /\ fireI = 1
    /\ fireJ = 1
    /\ curEntry = NoEntry
    /\ schedCtx = FALSE
    /\ rPc = [r \in Reloaders |-> "idle"]
    /\ rNew = [r \in Reloaders |-> << >>]
    /\ rCfg = [r \in Reloaders |-> InitialCfg]
    /\ reloadsLeft = MaxReloads
    /\ queue = << >>
    /\ passStart = << >>
    /\ passCalls = << >>
    /\ passDone = FALSE
    /\ gone = {}
    /\ pendingNew = {}
    /\ supplied = {}

loopLocals == <<loopNext, loopNow, rangeN, fireI, fireJ, curEntry>>
reloadVars == <<rPc, rNew, rCfg, reloadsLeft>>
histVars == <<passStart, passCalls, passDone, gone, pendingNew, supplied>>

\* Time passes.
Tick ==
    /\ now < MaxTime
    /\ now' = now + 1
    /\ UNCHANGED <<entArr, entLen, mu, loopPc, loopLocals, schedCtx, reloadVars,
                   queue, histVars>>
    /\ SchedFrame

\* The caller cancels the context passed to Start.
CancelCtx ==
    /\ ~schedCtx
    /\ schedCtx' = TRUE
    /\ UNCHANGED <<now, entArr, entLen, mu, loopPc, loopLocals, reloadVars,
                   queue, histVars>>
    /\ SchedFrame

\* A worker takes a job from the jobs channel.
WorkerReceive ==
    /\ queue # << >>
    /\ queue' = Tail(queue)
    /\ UNCHANGED <<now, entArr, entLen, mu, loopPc, loopLocals, schedCtx,
                   reloadVars, histVars>>
    /\ SchedFrame

\* Start 222-239: under the lock, either find no entries, or sort them and
\* read the earliest nextRun.
LoopTop ==
    /\ loopPc = "top"
    /\ mu = "free"
    /\ IF Len(Entries) = 0
       THEN /\ loopPc' = "idle"
            /\ UNCHANGED <<entArr, loopNext>>
       ELSE /\ entArr' \in SortedByNextRun(Entries)
            /\ loopNext' = entArr'[1].nextRun
            /\ loopPc' = "sleep"
    /\ loopNow' = 0
    /\ passStart' = << >>
    /\ passCalls' = << >>
    /\ passDone' = FALSE
    /\ UNCHANGED <<now, entLen, mu, rangeN, fireI, fireJ, curEntry, schedCtx,
                   reloadVars, queue, gone, pendingNew, supplied>>
    /\ SchedFrame

\* Start 226-231: no entries; leave on cancellation, else retry after 500 ms.
LoopIdle ==
    /\ loopPc = "idle"
    /\ \/ schedCtx /\ loopPc' = "exited"
       \/ loopPc' = "top"
    /\ UNCHANGED <<now, entArr, entLen, mu, loopLocals, schedCtx, reloadVars,
                   queue, histVars>>
    /\ SchedFrame

\* Start 241-254: wait for cancellation or for the timer armed for next,
\* then read the clock.
LoopSleep ==
    /\ loopPc = "sleep"
    /\ \/ /\ schedCtx
          /\ loopPc' = "exited"
          /\ UNCHANGED loopNow
       \/ /\ now >= loopNext
          /\ loopNow' = now
          /\ loopPc' = "lock"
    /\ loopNext' = 0
    /\ UNCHANGED <<now, entArr, entLen, mu, rangeN, fireI, fireJ,
                   curEntry, schedCtx, reloadVars, queue, histVars>>
    /\ SchedFrame

\* Start 255-256: take the lock; range fixes the number of iterations.
LoopLock ==
    /\ loopPc = "lock"
    /\ mu = "free"
    /\ mu' = "loop"
    /\ rangeN' = entLen
    /\ fireI' = 1
    /\ loopPc' = "range"
    /\ passStart' = Entries
    /\ passCalls' = << >>
    /\ passDone' = FALSE
    /\ UNCHANGED <<now, entArr, entLen, loopNext, loopNow, fireJ, curEntry,
                   schedCtx, reloadVars, queue, gone, pendingNew,
                   supplied>>
    /\ SchedFrame

\* Start 256-263: one iteration test of the firing loop: stop at the end of
\* the range or at the first entry that is not due, else enter fireEntry.
LoopRange ==
    /\ loopPc = "range"
    /\ IF fireI > rangeN \/ fireI > Len(entArr) \/ ~Due(entArr[fireI], loopNow)
       THEN /\ mu' = "free"
            /\ loopPc' = "top"
            /\ passDone' = TRUE
            /\ rangeN' = 0
            /\ fireI' = 1
            /\ UNCHANGED <<curEntry, fireJ>>
       ELSE /\ curEntry' = entArr[fireI]
            /\ fireJ' = 1
            /\ loopPc' = "fire"
            /\ UNCHANGED <<mu, passDone, rangeN, fireI>>
    /\ UNCHANGED <<now, entArr, entLen, loopNext, loopNow,
                   schedCtx, reloadVars, queue, passStart, passCalls,
                   gone, pendingNew, supplied>>
    /\ SchedFrame

\* fireEntry 322-329: TrySubmit the next job of the entry; a refused job is
\* logged and dropped.
FireJob ==
    /\ loopPc = "fire"
    /\ fireJ <= Len(curEntry.jobs)
    /\ \E res \in TrySubmit(queue, curEntry.jobs[fireJ]) :
          /\ queue' = res.queue
          /\ passCalls' = Append(passCalls, [job |-> curEntry.jobs[fireJ], ok |-> res.ok])
    /\ fireJ' = fireJ + 1
    /\ pendingNew' = pendingNew \ {curEntry.hostname}
    /\ UNCHANGED <<now, entArr, entLen, mu, loopPc, loopNext, loopNow, rangeN,
                   fireI, curEntry, schedCtx, reloadVars, passStart, passDone,
                   gone, supplied>>
    /\ SchedFrame

\* Start 261: after fireEntry, advance the entry's nextRun by its interval.
LoopAdvance ==
    /\ loopPc = "fire"
    /\ fireJ > Len(curEntry.jobs)
    /\ fireI <= Len(entArr)
    /\ entArr' = [entArr EXCEPT ![fireI].nextRun = loopNow + entArr[fireI].interval]
    /\ fireI' = fireI + 1
    /\ fireJ' = 1
    /\ curEntry' = NoEntry
    /\ loopPc' = "range"
    /\ UNCHANGED <<now, entLen, mu, loopNext, loopNow, rangeN,
                   schedCtx, reloadVars, queue, histVars>>
    /\ SchedFrame

\* Reload 277: buildEntries(cfg) with the clock read at that moment.
ReloadBuild(r) ==
    /\ rPc[r] = "idle"
    /\ reloadsLeft > 0
    /\ \E cfg \in Snapshots :
          /\ rCfg' = [rCfg EXCEPT ![r] = cfg]
          /\ \E es \in buildEntries(cfg, now) : rNew' = [rNew EXCEPT ![r] = es]
          /\ supplied' = supplied \cup {cfg}
    /\ rPc' = [rPc EXCEPT ![r] = "built"]
    /\ reloadsLeft' = reloadsLeft - 1
    /\ UNCHANGED <<now, entArr, entLen, mu, loopPc, loopLocals, schedCtx, queue, passStart, passCalls, passDone, gone, pendingNew>>
    /\ SchedFrame

\* Reload 278: s.mu.Lock().
ReloadLockSkipped(r) == UNCHANGED mu
ReloadLock(r) == mu = "free" /\ mu' = r

\* Reload 278-279: take the lock and store the first word of the slice
\* header (the array pointer).
ReloadStorePtr(r) ==
    /\ rPc[r] = "built"
    /\ ReloadLock(r)
    /\ entArr' = rNew[r]
    /\ rPc' = [rPc EXCEPT ![r] = "storing"]
    /\ pendingNew' = (pendingNew \cap HostsIn(rNew[r]))
                        \cup (HostsIn(rNew[r]) \ HostsIn(Entries))
    /\ gone' = gone \ HostsIn(rNew[r])
    /\ UNCHANGED <<now, entLen, loopPc, loopLocals, schedCtx, rNew, rCfg,
                   reloadsLeft, queue, passStart, passCalls, passDone,
                   supplied>>
    /\ SchedFrame

\* Reload 279: store the length word; the replacement is complete.
ReloadStoreLen(r) ==
    /\ rPc[r] = "storing"
    /\ entLen' = Len(rNew[r])
    /\ rPc' = [rPc EXCEPT ![r] = "stored"]
    /\ UNCHANGED <<now, entArr, mu, loopPc, loopLocals, schedCtx, rNew, rCfg,
                   reloadsLeft, queue, histVars>>
    /\ SchedFrame

\* Reload 280-282: unlock and return.
ReloadReturn(r) ==
    /\ rPc[r] = "stored"
    /\ mu' = IF mu = r THEN "free" ELSE mu
    /\ rPc' = [rPc EXCEPT ![r] = "idle"]
    /\ gone' = gone \cup (Hosts \ HostsIn(rNew[r]))
    /\ rNew' = [rNew EXCEPT ![r] = << >>]
    /\ rCfg' = [rCfg EXCEPT ![r] = InitialCfg]
    /\ UNCHANGED <<now, entArr, entLen, loopPc, loopLocals, schedCtx,
                   reloadsLeft, queue, passStart, passCalls, passDone,
                   pendingNew, supplied>>
    /\ SchedFrame

SchedNext ==
    \/ Tick
    \/ CancelCtx
    \/ WorkerReceive
    \/ LoopTop
    \/ LoopIdle
    \/ LoopSleep
    \/ LoopLock
    \/ LoopRange
    \/ FireJob
    \/ LoopAdvance
    \/ \E r \in Reloaders : ReloadBuild(r)
    \/ \E r \in Reloaders : ReloadStorePtr(r)
    \/ \E r \in Reloaders : ReloadStoreLen(r)
    \/ \E r \in Reloaders : ReloadReturn(r)

(***************************************************************************)
(* Scheduler: properties.                                                  *)
(***************************************************************************)
CallJobs(cs) == [i \in 1..Len(cs) |-> cs[i].job]
AllIdle == \A r \in Reloaders : rPc[r] = "idle"

\* C4: a full job queue never holds the scheduler up. Whenever the loop is
\* about to submit a job the submit step can be taken at once; when the queue
\* is full that step leaves the queue as it is, reports the job refused
\* (TrySubmit = false) and moves on to the next job.
C4_TrySubmitNeverBlocks ==
    (loopPc = "fire" /\ fireJ <= Len(curEntry.jobs)) =>
        /\ ENABLED FireJob
        /\ Len(queue) >= QueueCap =>
              ENABLED (/\ FireJob
                       /\ queue' = queue
                       /\ fireJ' = fireJ + 1
                       /\ ~passCalls'[Len(passCalls')].ok)

\* C4 witness: a pass ended after one of its jobs was refused by a full queue.
C4_Witness == passDone /\ \E i \in 1..Len(passCalls) : ~passCalls[i].ok

\* C5: when a firing pass ends, the TrySubmit calls it made are exactly the
\* jobs of every entry whose nextRun was at or before the clock value read on
\* wake, entry by entry, each job once and in job-list order.
C5_DueEntriesFired ==
    passDone =>
        CallJobs(passCalls) =
            Flatten([i \in 1..Len(passStart) |->
                        IF passStart[i].nextRun <= loopNow
                        THEN passStart[i].jobs ELSE << >>])

\* C5 witness: a pass over a two-entry list (put there by a Reload) ended
\* having fired one entry and left the other, which was not yet due.
C5_Witness ==
    /\ passDone
    /\ Len(passStart) = 2
    /\ passCalls # << >>
    /\ \E i \in 1..2 : passStart[i].nextRun > loopNow

\* C6 (claim as stated): while a device added by a returned Reload still
\* awaits its first dispatch, the loop is never parked on a timer that was
\* armed for an older entry and has yet to expire.
C6_AddedPolledImmediately ==
    \A h \in pendingNew :
        ~(AllIdle /\ loopPc = "sleep" /\ loopNext > now)

\* C7 (claim as stated): a Reload leaves the nextRun of every device present
\* before and after it as it was.
C7_UnchangedUntouched ==
    [][\A r \in Reloaders :
          (rPc[r] = "built" /\ rPc'[r] = "storing") =>
              \A h \in HostsIn(Entries) \cap HostsIn(entArr') :
                  NextRunIn(entArr', h) = NextRunIn(Entries, h)]_vars

\* C8: no TrySubmit call is made for a hostname that a returned Reload left
\* out of its snapshot (and no later Reload brought back).
C8_RemovedNeverSubmitted ==
    [][Len(passCalls') > Len(passCalls) =>
          passCalls'[Len(passCalls')].job.Hostname \notin gone]_vars

\* C8 witness: with device a removed by a returned Reload, the loop is in the
\* middle of dispatching the device that remains.
C8_Witness ==
    /\ "a" \in gone
    /\ loopPc = "fire"
    /\ curEntry.hostname = "b"
    /\ passCalls # << >>

\* The devices of an entry list: hostname, interval and jobs of each entry.
DevicesIn(es) ==
    {[hostname |-> es[i].hostname, interval |-> es[i].interval, jobs |-> es[i].jobs] :
        i \in 1..Len(es)}

\* C9: concurrent Reloads do not race. The slice header of s.entries is whole
\* whenever the lock is not held by a Reload (so the loop, which reads it only
\* under the lock, never sees a half-replaced list), and once every Reload has
\* returned the list holds exactly the devices of one supplied snapshot.
C9_ReloadAtomic ==
    /\ mu \notin Reloaders => HeaderOk
    /\ (AllIdle /\ supplied # {}) =>
          \E cfg \in supplied : \E es \in buildEntries(cfg, 0) :
              DevicesIn(Entries) = DevicesIn(es)

\* C9 witness: one Reload is half-way through the replacement while the other
\* Reload and the loop both wait for the lock.
C9_Witness ==
    /\ ~HeaderOk
    /\ mu = "r1"
    /\ rPc["r2"] = "built"
    /\ loopPc = "lock"

(***************************************************************************)
(* Connection pool.                                                        *)
(***************************************************************************)
Clients == {"c1", "c2", "c3"}
\* A session is closed exactly where the code drops its last reference, so
\* the sessions held by a caller or by an idle list are the open ones.
NoConn == "nil"
OpenConn == "open"
DefaultMaxConcurrentPolls == 4
\* Failed dials that are told apart; further ones are counted as the last.
MaxDialFails == 1

\* DeviceConfig.MaxConcurrentPolls of each device: unset for a, 2 for b.
MaxConcurrentPollsOf(h) == IF h = "a" THEN 0 ELSE 2

\* getOrCreatePool 325-327 and 337: the capacity of a new device semaphore.
SemSize(maxConcurrent) ==
    IF maxConcurrent <= 0 THEN DefaultMaxConcurrentPolls ELSE maxConcurrent

RECURSIVE popOldest(_, _)
popOldest(st, t) ==
    IF st = << >>
    THEN [conn |-> NoConn, idle |-> << >>]
    ELSE IF IdleTimeout > 0 /\ t - st[1].returnedAt > IdleTimeout
         THEN popOldest(Tail(st), t)
         ELSE [conn |-> st[1].conn, idle |-> Tail(st)]

\* popIdle: pop from the end of the stack, closing entries idle for longer
\* than IdleTimeout, until one can be reused or the stack is empty.
RECURSIVE popIdle(_, _)
popIdle(st, t) ==
    IF st = << >>
    THEN [conn |-> NoConn, idle |-> << >>]
    ELSE LET e == st[Len(st)]
             rest == SubSeq(st, 1, Len(st) - 1)
         IN  IF IdleTimeout > 0 /\ t - e.returnedAt > IdleTimeout
             THEN popIdle(rest, t)
             ELSE [conn |-> e.conn, idle |-> rest]

\* Get 228: the send on dp.sem can proceed while the channel has room.
SemHasRoomOffByOne(h) == sem[h] <= semCap[h]
SemHasRoom(h) == sem[h] < semCap[h]

\* Put 266: the idle list is full.
IdleFull(h) == Len(idle[h]) >= MaxIdlePerDevice

PoolFrame == UNCHANGED <<schedRest, appVars, extVars>>

\* NewConnectionPool: no device pools, not closed.
PoolInit ==
    /\ poolClosed = FALSE
    /\ pmuW = FALSE
    /\ semCap = [h \in Hosts |-> 0]
    /\ sem = [h \in Hosts |-> 0]
    /\ idle = [h \in Hosts |-> << >>]
    /\ cPc = [c \in Clients |-> "idle"]
    /\ cHost = [c \in Clients |-> "a"]
    /\ cConn = [c \in Clients |-> NoConn]
    /\ closePc = "idle"
    /\ drained = {}
    /\ putAfterClose = [c \in Clients |-> FALSE]
    /\ dialFails = 0
    /\ getRejected = FALSE

closeVars == <<poolClosed, pmuW, closePc, drained>>
\* What only a Get can change besides the caller's own locals.
getHist == <<dialFails, getRejected>>

\* The Close call that closed the pool has returned.
CloseReturned == poolClosed /\ closePc = "idle"

\* A caller is back outside the pool: its locals are dead.
Leave(c) ==
    /\ cPc' = [cPc EXCEPT ![c] = "idle"]
    /\ cHost' = [cHost EXCEPT ![c] = "a"]
    /\ cConn' = [cConn EXCEPT ![c] = NoConn]
    /\ putAfterClose' = [putAfterClose EXCEPT ![c] = FALSE]

\* Time passes.
PoolTick ==
    /\ now < MaxTime
    /\ now' = now + 1
    /\ UNCHANGED poolVars
    /\ PoolFrame

FastPathPasses(closed) == FALSE
\* Get 220-224: select { case <-p.closed: return error; default: }.
FastPathRejects(closed) == closed

\* Get 217-224: getOrCreatePool looks the device pool up, creating it (with a
\* semaphore sized from the cfg argument) when the hostname has none; then
\* the fast path fails at once when the pool is closed.
GetStart(c, h) ==
    /\ cPc[c] = "idle"
    /\ ~pmuW
    /\ semCap' = IF semCap[h] = 0
                 THEN [semCap EXCEPT ![h] = SemSize(MaxConcurrentPollsOf(h))]
                 ELSE semCap
    /\ IF FastPathRejects(poolClosed)
       THEN /\ getRejected' = TRUE
            /\ UNCHANGED <<cPc, cHost>>
       ELSE /\ cHost' = [cHost EXCEPT ![c] = h]
            /\ cPc' = [cPc EXCEPT ![c] = "acquire"]
            /\ UNCHANGED getRejected
    /\ UNCHANGED <<now, dialFails, sem, idle, cConn, putAfterClose, closeVars>>
    /\ PoolFrame

\* Get 227-233: take a slot, or give up on the caller's deadline or on Close.
GetAcquire(c) ==
    /\ cPc[c] = "acquire"
    /\ \/ /\ SemHasRoom(cHost[c])
          /\ sem' = [sem EXCEPT ![cHost[c]] = @ + 1]
          /\ cPc' = [cPc EXCEPT ![c] = "pop"]
          /\ UNCHANGED <<cHost, cConn, putAfterClose>>
       \/ /\ Leave(c)                               \* <-ctx.Done()
          /\ UNCHANGED sem
       \/ /\ poolClosed                             \* <-p.closed
          /\ Leave(c)
          /\ UNCHANGED sem
    /\ UNCHANGED <<now, getHist, semCap, idle, closeVars>>
    /\ PoolFrame

\* Get 236-238 / popIdle: reuse the newest idle session that has not expired.
GetPop(c) ==
    /\ cPc[c] = "pop"
    /\ LET r == popIdle(idle[cHost[c]], now)
       IN  /\ idle' = [idle EXCEPT ![cHost[c]] = r.idle]
           /\ cConn' = [cConn EXCEPT ![c] = r.conn]
           /\ cPc' = [cPc EXCEPT ![c] = IF r.conn = NoConn THEN "dial" ELSE "using"]
    /\ UNCHANGED <<now, getHist, semCap, sem, cHost, putAfterClose, closeVars>>
    /\ PoolFrame

SlotKept(h) == sem
\* Get 243-245: <-dp.sem on a failed dial.
SlotReleased(h) == [sem EXCEPT ![h] = @ - 1]

\* Get 241-247: dial; on failure release the slot and return the error.
GetDial(c) ==
    /\ cPc[c] = "dial"
    /\ \/ /\ cConn' = [cConn EXCEPT ![c] = OpenConn]
          /\ cPc' = [cPc EXCEPT ![c] = "using"]
          /\ UNCHANGED <<sem, cHost, putAfterClose, dialFails>>
       \/ /\ sem[cHost[c]] > 0
          /\ sem' = SlotReleased(cHost[c])
          /\ dialFails' = IF dialFails < MaxDialFails THEN dialFails + 1
                                                      ELSE dialFails
          /\ Leave(c)
    /\ UNCHANGED <<now, getRejected, semCap, idle, closeVars>>
    /\ PoolFrame

\* Put 253: getPool(hostname) under the read lock.
PutBegin(c) ==
    /\ cPc[c] = "using"
    /\ ~pmuW
    /\ cPc' = [cPc EXCEPT ![c] = "put"]
    /\ putAfterClose' = [putAfterClose EXCEPT ![c] = CloseReturned]
    /\ UNCHANGED <<now, getHist, semCap, sem, idle, cHost, cConn, closeVars>>
    /\ PoolFrame

\* Put 261-272: under dp.mu, close the session when the idle list is full,
\* else push it with the time of return; the deferred calls then unlock and
\* release the concurrency slot.
PutStore(c) ==
    /\ cPc[c] = "put"
    /\ sem[cHost[c]] > 0
    /\ IF IdleFull(cHost[c])
       THEN UNCHANGED idle
       ELSE idle' = [idle EXCEPT ![cHost[c]] =
                        Append(@, [conn |-> cConn[c], returnedAt |-> now])]
    /\ sem' = [sem EXCEPT ![cHost[c]] = @ - 1]
    /\ Leave(c)
    /\ UNCHANGED <<now, getHist, semCap, closeVars>>
    /\ PoolFrame

\* Discard 278-286: close the session and release the slot.
Discard(c) ==
    /\ cPc[c] = "using"
    /\ ~pmuW
    /\ sem[cHost[c]] > 0
    /\ sem' = [sem EXCEPT ![cHost[c]] = @ - 1]
    /\ Leave(c)
    /\ UNCHANGED <<now, getHist, semCap, idle, closeVars>>
    /\ PoolFrame

\* Close 290-298: return if already closed, else close p.closed and take the
\* write lock.
CloseBegin ==
    /\ closePc = "idle"
    /\ ~poolClosed
    /\ poolClosed' = TRUE
    /\ pmuW' = TRUE
    /\ closePc' = "drain"
    /\ UNCHANGED <<now, getHist, semCap, sem, idle, cPc, cHost, cConn, drained,
                   putAfterClose>>
    /\ PoolFrame

\* Close 300-309: under dp.mu, close the idle sessions of one device pool.
CloseDrain(h) ==
    /\ closePc = "drain"
    /\ semCap[h] > 0
    /\ h \notin drained
    /\ idle' = [idle EXCEPT ![h] = << >>]
    /\ drained' = drained \cup {h}
    /\ UNCHANGED <<now, getHist, semCap, sem, cPc, cHost, cConn, poolClosed, pmuW, closePc,
                   putAfterClose>>
    /\ PoolFrame

\* Close 298, 310: every pool drained; unlock and return.
CloseReturn ==
    /\ closePc = "drain"
    /\ \A h \in Hosts : semCap[h] > 0 => h \in drained
    /\ pmuW' = FALSE
    /\ closePc' = "idle"
    /\ drained' = {}
    /\ UNCHANGED <<now, getHist, semCap, sem, idle, cPc, cHost, cConn, poolClosed,
                   putAfterClose>>
    /\ PoolFrame

PoolNext ==
    \/ PoolTick
    \/ \E c \in Clients, h \in Hosts : GetStart(c, h)
    \/ \E c \in Clients : GetAcquire(c)
    \/ \E c \in Clients : GetPop(c)
    \/ \E c \in Clients : GetDial(c)
    \/ \E c \in Clients : PutBegin(c)
    \/ \E c \in Clients : PutStore(c)
    \/ \E c \in Clients : Discard(c)
    \/ CloseBegin
    \/ \E h \in Hosts : CloseDrain(h)
    \/ CloseReturn

(***************************************************************************)
(* Connection pool: properties.                                            *)
(***************************************************************************)
\* Sessions of hostname h handed out by Get and not yet given back: the
\* callers between the return of Get and the return of Put or Discard.
InFlight(h) ==
    Cardinality({c \in Clients : cHost[c] = h /\ cPc[c] \in {"using", "put"}})

\* Callers of hostname h that hold a slot of the device semaphore.
SlotHolders(h) ==
    Cardinality({c \in Clients :
                    cHost[c] = h /\ cPc[c] \in {"pop", "dial", "using", "put"}})

\* C1: for every hostname, at every moment and under every interleaving of
\* Get, Put, Discard and Close, the number of sessions handed out and not yet
\* given back is at most the device's max-concurrent-polls, 4 when that is
\* unset: the semaphore is created with exactly that capacity and counts
\* exactly the callers holding a slot.
C1_InFlightBounded ==
    \A h \in Hosts :
        LET limit == IF MaxConcurrentPollsOf(h) > 0
                     THEN MaxConcurrentPollsOf(h) ELSE 4
        IN  /\ InFlight(h) <= limit
            /\ sem[h] = SlotHolders(h)
            /\ sem[h] <= limit
            /\ semCap[h] \in {0, limit}

\* C29: after Close has returned, every Get call returns a failure and hands
\* out no session: a caller that begins a Get once Close has returned is
\* back outside the pool in the same step and holds no session, and the
\* step that turns a Get away takes no slot and no idle session.
C29_GetAfterCloseFails ==
    /\ [][\A c \in Clients :
             (CloseReturned /\ cPc[c] = "idle") =>
                 (cPc'[c] = "idle" /\ cConn'[c] = NoConn)
         ]_vars
    /\ [][getRejected' # getRejected =>
             (poolClosed /\ cPc' = cPc /\ cConn' = cConn
                 /\ sem' = sem /\ idle' = idle)
         ]_vars

\* Close has returned and a Get called after that was turned away, for a
\* device whose sessions were all given back.
C29_Witness ==
    /\ CloseReturned
    /\ getRejected
    /\ \A c \in Clients : cPc[c] = "idle"
    /\ semCap["a"] > 0 /\ semCap["b"] > 0

\* Sends on dp.sem that would not block: what later Get calls can take.
FreeSlots(h) == semCap[h] - sem[h]

\* C21: if dialing a new session fails inside Get, the semaphore slot that
\* Get acquired is released and the error is returned with no session; any
\* number of failed dials leaves the slots available to later Get calls
\* unchanged: the free slots of a device are its capacity minus the callers
\* now holding one, whatever the number of dials that failed before.
C21_DialFailureReleasesSlot ==
    /\ [](\A h \in Hosts :
            semCap[h] > 0 =>
                FreeSlots(h) = SemSize(MaxConcurrentPollsOf(h)) - SlotHolders(h))
    /\ [][\A c \in Clients :
            (cPc[c] = "dial" /\ cPc'[c] = "idle") =>
                /\ sem'[cHost[c]] = sem[cHost[c]] - 1
                /\ \A h \in Hosts \ {cHost[c]} : sem'[h] = sem[h]
                /\ cConn'[c] = NoConn
                /\ idle' = idle
         ]_vars

\* Only device b was ever asked for; MaxDialFails dials for it have failed
\* and it still has both of its sessions handed out.
C21_Witness ==
    /\ dialFails = MaxDialFails
    /\ semCap["a"] = 0
    /\ InFlight("b") = 2
    /\ sem["b"] = semCap["b"]

\* Device b is at its limit of 2 while a third Get for b waits for a slot
\* and Close is draining the pool.
C1_Witness ==
    /\ InFlight("b") = MaxConcurrentPollsOf("b")
    /\ \E c \in Clients : cHost[c] = "b" /\ cPc[c] = "acquire"
    /\ closePc = "drain"

\* C2: a Put that begins after Close has returned closes the session and
\* leaves the idle lists as they were, so a closed pool never comes to hold
\* an open idle session.
C2_PutAfterCloseNotStored ==
    [][\A c \in Clients :
          (cPc[c] = "put" /\ putAfterClose[c] /\ cPc'[c] = "idle")
              => idle' = idle]_vars

(***************************************************************************)
(* Application: App.Start, the pipeline goroutines, App.Stop.              *)
(***************************************************************************)
Workers == 1..PollerWorkers
Stages == {"decode", "produce", "format", "trapFormat", "transport"}
Chans == {"jobs", "raw", "decoded", "metric", "formatted", "trap"}

\* make(chan ...) in NewWorkerPool, App.Start and trapreceiver.New.
Cap(ch) ==
    CASE ch = "jobs" -> PollerWorkers * 2
      [] ch = "trap" -> OutputBufferSize
      [] OTHER -> BufferSize

\* The channel a stage ranges over and the channel it sends on.
In(s) ==
    CASE s = "decode" -> "raw"
      [] s = "produce" -> "decoded"
      [] s = "format" -> "metric"
      [] s = "trapFormat" -> "trap"
      [] s = "transport" -> "formatted"
Out(s) ==
    CASE s = "decode" -> "decoded"
      [] s = "produce" -> "metric"
      [] s = "format" -> "formatted"
      [] s = "trapFormat" -> "formatted"
      [] s = "transport" -> "none"

\* Start 226-229: the formatter goroutines counted into formatWg.
NumFormattersPollOnly(started) == 1
NumFormatters(started) == IF started THEN 2 ELSE 1

LaunchedWithTrapsOnly(started) == IF started THEN Stages ELSE {}
\* Stages launched by Start 233-239.
Launched(started) == IF started THEN Stages ELSE Stages \ {"trapFormat"}

\* Stop 270-312: the steps of App.Stop in the order of the code.
StopOrderWorkersFirst ==
    <<"cancel", "workerPoolStop", "schedStop", "closeRaw", "trapStop",
      "wgWait", "transportClose", "connPoolClose">>
StopOrder ==
    <<"cancel", "schedStop", "workerPoolStop", "closeRaw", "trapStop",
      "wgWait", "transportClose", "connPoolClose">>

\* Stop is called once Start has returned.
StopAt(step) ==
    /\ aPc \in {"running", "stopping"}
    /\ stopIdx <= Len(StopOrder)
    /\ StopOrder[stopIdx] = step

\* The step of Stop has returned: go on to the next one.
StopAdvance ==
    /\ stopLog' = Append(stopLog, StopOrder[stopIdx])
    /\ stopIdx' = stopIdx + 1
    /\ aPc' = IF stopIdx = Len(StopOrder) THEN "stopped" ELSE "stopping"

\* Channel state after a value is taken from channel src (or from nowhere,
\* "none") and sent on channel dst: the value is buffered, or the send hits
\* a closed channel.
Take(b, src) == IF src = "none" THEN b ELSE [b EXCEPT ![src] = @ - 1]
Send(src, dst) ==
    IF closes[dst] > 0
    THEN /\ sentOnClosed' = sentOnClosed \cup {dst}
         /\ buf' = Take(buf, src)
    ELSE /\ buf' = [Take(buf, src) EXCEPT ![dst] = @ + 1]
         /\ UNCHANGED sentOnClosed
CanSend(ch) == closes[ch] > 0 \/ buf[ch] < Cap(ch)

AppFrame == UNCHANGED <<schedVars, poolVars, extVars>>

\* The followed poll result: where it is ("none": nothing followed yet,
\* "armed": the next result placed on rawCh is the one, a channel, "sent",
\* "skipped" by a stage, "lost" in a send on a closed channel), how many
\* values are ahead of it in its channel, and how often transport.Send was
\* called with its record.
NotTraced == [at |-> "none", ahead |-> 0, sends |-> 0]

\* The value a receive from channel src returns is the followed one.
Hit(src) == traced.at = src /\ traced.ahead = 0

\* A receive from src that returns another value moves the followed one up.
Advance(src) ==
    IF traced.at = src /\ traced.ahead > 0
    THEN [traced EXCEPT !.ahead = @ - 1]
    ELSE traced

\* The value received from src is sent on dst: a channel is a FIFO queue,
\* the value goes behind the buf[dst] values already there.
Forward(src, dst) ==
    IF Hit(src)
    THEN IF closes[dst] > 0
         THEN [traced EXCEPT !.at = "lost"]
         ELSE [traced EXCEPT !.at = dst, !.ahead = buf[dst]]
    ELSE Advance(src)

\* app.New: nothing constructed or started yet.
AppInit ==
    /\ aPc = "new"
    /\ stopIdx = 1
    /\ trapStarted = FALSE
    /\ trapBindFailed = FALSE
    /\ schedEntries = TRUE
    /\ traced = NotTraced
    /\ pipeCtx = FALSE
    /\ schedGo = "off"
    /\ wPc = [w \in Workers |-> "off"]
    /\ stPc = [s \in Stages |-> "off"]
    /\ closerPc = "off"
    /\ buf = [ch \in Chans |-> 0]
    /\ closes = [ch \in Chans |-> 0]
    /\ formatWg = 0
    /\ wg = 0
    /\ trRunning = FALSE
    /\ trMu = "free"
    /\ trListen = "off"
    /\ trWatcher = "off"
    /\ transportClosed = FALSE
    /\ connPoolClosed = FALSE
    /\ sentOnClosed = {}
    /\ stopLog = << >>

stopVars == <<aPc, stopIdx, stopLog>>
startVars == <<trapStarted, trapBindFailed>>
trapVars == <<trRunning, trMu, trListen, trWatcher>>
goVars == <<schedGo, wPc, stPc, closerPc>>
chanVars == <<buf, closes, sentOnClosed>>

\* Start 157-219: load the configuration, make the channels and components,
\* derive pipeCtx and, when traps are enabled, start the trap receiver; a
\* bind failure leaves a.trapReceiver nil.
StartTrap ==
    /\ aPc = "new"
    /\ aPc' = "add"
    /\ \/ /\ trapStarted' = TRUE
          /\ trRunning' = TRUE
          /\ trListen' = "listening"
          /\ trWatcher' = "wait"
          /\ UNCHANGED trapBindFailed
       \/ /\ trapStarted' = FALSE
          /\ \E failed \in BOOLEAN : trapBindFailed' = failed
          /\ UNCHANGED <<trRunning, trListen, trWatcher>>
    /\ UNCHANGED <<stopIdx, stopLog, schedEntries, traced, pipeCtx, goVars, chanVars,
                   formatWg, wg, trMu, transportClosed, connPoolClosed>>
    /\ AppFrame

\* Start 226-230: count the formatter goroutines before any stage starts.
StartAddFormatters ==
    /\ aPc = "add"
    /\ aPc' = "launch"
    /\ formatWg' = formatWg + NumFormatters(trapStarted)
    /\ UNCHANGED <<stopIdx, stopLog, startVars, schedEntries, traced, pipeCtx, goVars, chanVars, wg,
                   trapVars, transportClosed, connPoolClosed>>
    /\ AppFrame

\* Start 233-249: launch the stages, the workers and the scheduler.
StartLaunch ==
    /\ aPc = "launch"
    /\ aPc' = "running"
    /\ stPc' = [s \in Stages |->
                   IF s \in Launched(trapStarted) THEN "recv" ELSE "off"]
    /\ closerPc' = "wait"
    /\ wPc' = [w \in Workers |-> "recv"]
    /\ schedGo' = "run"
    /\ wg' = wg + Cardinality(Launched(trapStarted)) + 1
    /\ UNCHANGED <<stopIdx, stopLog, startVars, schedEntries, traced, pipeCtx, chanVars, formatWg,
                   trapVars, transportClosed, connPoolClosed>>
    /\ AppFrame

\* The context given to Start is cancelled by its owner (main: a signal).
ParentCancel ==
    /\ aPc \in {"add", "launch", "running"}
    /\ ~pipeCtx
    /\ pipeCtx' = TRUE
    /\ UNCHANGED <<stopVars, startVars, schedEntries, traced, goVars, chanVars, formatWg, wg,
                   trapVars, transportClosed, connPoolClosed>>
    /\ AppFrame


\* Scheduler.Start, one dispatch: fireEntry calls TrySubmit on the job
\* channel, which drops the job when the channel is full.
SchedDispatch ==
    /\ schedGo = "run"
    /\ schedEntries
    /\ IF CanSend("jobs")
       THEN Send("none", "jobs")
       ELSE UNCHANGED <<buf, sentOnClosed>>
    /\ UNCHANGED <<stopVars, startVars, schedEntries, traced, pipeCtx, goVars, closes, formatWg, wg,
                   trapVars, transportClosed, connPoolClosed>>
    /\ AppFrame

\* App.Reload 317-336, called at any time once Start has returned: the
\* configuration is loaded again and Scheduler.Reload swaps s.entries for
\* the entries of its devices, if it has any; no job is submitted.
AppReload ==
    /\ aPc \notin {"new", "add", "launch"}
    /\ \E devices \in BOOLEAN : schedEntries' = devices
    /\ UNCHANGED <<stopVars, startVars, traced, pipeCtx, goVars, chanVars, formatWg, wg,
                   trapVars, transportClosed, connPoolClosed>>
    /\ AppFrame

\* The next poll result a worker places on rawCh is the followed one.
TraceArm ==
    /\ aPc = "running"
    /\ traced.at = "none"
    /\ traced' = [traced EXCEPT !.at = "armed"]
    /\ UNCHANGED <<stopVars, startVars, schedEntries, pipeCtx, goVars, chanVars,
                   formatWg, wg, trapVars, transportClosed, connPoolClosed>>
    /\ AppFrame

\* Scheduler.Start returns on ctx.Done and closes s.done; App.Start 245-249: the
\* wrapping goroutine calls a.wg.Done.
SchedExit ==
    /\ schedGo = "run"
    /\ pipeCtx
    /\ schedGo' = "done"
    /\ wg' = wg - 1
    /\ UNCHANGED <<stopVars, startVars, schedEntries, traced, pipeCtx, wPc, stPc, closerPc, chanVars,
                   formatWg, trapVars, transportClosed, connPoolClosed>>
    /\ AppFrame

\* worker 80-104, one iteration: receive a job and poll; a failed poll
\* without varbinds is dropped, any other result is sent on the output
\* channel (rawCh) once it has room.
WorkerStep(w) ==
    /\ wPc[w] = "recv"
    /\ buf["jobs"] > 0
    /\ \/ /\ buf' = Take(buf, "jobs")
          /\ UNCHANGED <<sentOnClosed, traced>>
       \/ /\ CanSend("raw")
          /\ Send("jobs", "raw")
          /\ traced' = IF traced.at = "armed" /\ closes["raw"] = 0
                       THEN [traced EXCEPT !.at = "raw", !.ahead = buf["raw"]]
                       ELSE traced
    /\ UNCHANGED <<stopVars, startVars, schedEntries, pipeCtx, goVars, closes, formatWg, wg,
                   trapVars, transportClosed, connPoolClosed>>
    /\ AppFrame

\* worker 81-84, 102-106: return when the job channel is closed and empty,
\* or on ctx.Done while waiting for a job or for room on the output.
WorkerExit(w) ==
    /\ wPc[w] = "recv"
    /\ \/ pipeCtx
       \/ closes["jobs"] > 0 /\ buf["jobs"] = 0
    /\ wPc' = [wPc EXCEPT ![w] = "done"]
    /\ UNCHANGED <<stopVars, startVars, schedEntries, traced, pipeCtx, schedGo, stPc, closerPc,
                   chanVars, formatWg, wg, trapVars, transportClosed,
                   connPoolClosed>>
    /\ AppFrame

\* A stage goroutine, one iteration of its range loop: receive a value from
\* the input channel; decode, produce and format skip it on an error or an
\* empty result and the transport stage writes it out, otherwise the
\* converted value is sent on the output channel once it has room.
StageStep(s) ==
    /\ stPc[s] = "recv"
    /\ buf[In(s)] > 0
    /\ \/ /\ buf' = Take(buf, In(s))
          /\ traced' = IF ~Hit(In(s)) THEN Advance(In(s))
                       ELSE IF s = "transport"
                            THEN [traced EXCEPT !.at = "sent", !.sends = @ + 1]
                            ELSE [traced EXCEPT !.at = "skipped"]
          /\ UNCHANGED sentOnClosed
       \/ /\ s # "transport"
          /\ CanSend(Out(s))
          /\ Send(In(s), Out(s))
          /\ traced' = Forward(In(s), Out(s))
    /\ UNCHANGED <<stopVars, startVars, schedEntries, pipeCtx, goVars, closes, formatWg, wg,
                   trapVars, transportClosed, connPoolClosed>>
    /\ AppFrame

RangeNeverEnds(ch) == FALSE
RangeEndsAtClose(ch) == closes[ch] > 0
\* for v := range ch ends when ch is closed and empty.
RangeEnds(ch) == buf[ch] = 0 /\ closes[ch] > 0

\* The range over the input channel ends: the channel is closed and empty.
\* Deferred calls: decode closes decodedCh, produce closes metricCh, the two
\* formatters call formatWg.Done; every stage calls wg.Done.
StageExit(s) ==
    /\ stPc[s] = "recv"
    /\ RangeEnds(In(s))
    /\ stPc' = [stPc EXCEPT ![s] = "done"]
    /\ closes' = IF s \in {"decode", "produce"}
                 THEN [closes EXCEPT ![Out(s)] = @ + 1]
                 ELSE closes
    /\ formatWg' = IF s \in {"format", "trapFormat"} THEN formatWg - 1
                   ELSE formatWg
    /\ wg' = wg - 1
    /\ UNCHANGED <<stopVars, startVars, schedEntries, traced, pipeCtx, schedGo, wPc, closerPc, buf,
                   sentOnClosed, trapVars, transportClosed, connPoolClosed>>
    /\ AppFrame

\* startTransportStage 447-450: formatWg.Wait returns at zero, then
\* formattedCh is closed.
CloserClose ==
    /\ closerPc = "wait"
    /\ formatWg = 0
    /\ closerPc' = "done"
    /\ closes' = [closes EXCEPT !["formatted"] = @ + 1]
    /\ UNCHANGED <<stopVars, startVars, schedEntries, traced, pipeCtx, schedGo, wPc, stPc, buf,
                   sentOnClosed, formatWg, wg, trapVars, transportClosed,
                   connPoolClosed>>
    /\ AppFrame

\* handleTrap: the listener goroutine hands a trap to the output channel
\* without blocking; a full buffer drops the trap.
TrapArrive ==
    /\ trListen \in {"listening", "closing"}
    /\ IF CanSend("trap")
       THEN Send("none", "trap")
       ELSE UNCHANGED <<buf, sentOnClosed>>
    /\ UNCHANGED <<stopVars, startVars, schedEntries, traced, pipeCtx, goVars, closes, formatWg, wg,
                   trapVars, transportClosed, connPoolClosed>>
    /\ AppFrame

\* TrapReceiver.Start 493-496: the listener was closed, Listen returns and
\* the goroutine closes doneCh.
TrapListenExit ==
    /\ trListen = "closing"
    /\ trListen' = "done"
    /\ UNCHANGED <<stopVars, startVars, schedEntries, traced, pipeCtx, goVars, chanVars, formatWg, wg,
                   trRunning, trMu, trWatcher, transportClosed, connPoolClosed>>
    /\ AppFrame

\* TrapReceiver.Stop 530-541 by caller k: take r.mu; return at once when not
\* running, else clear running, close the listener and stopCh and go on
\* holding r.mu.  The result tells whether the call has returned.
TrStopEnter(k) ==
    /\ trMu = "free"
    /\ IF trRunning
       THEN /\ trRunning' = FALSE
            /\ trListen' = "closing"
            /\ trMu' = k
       ELSE UNCHANGED <<trRunning, trListen, trMu>>

\* TrapReceiver.Stop 545-548 by caller k: doneCh is closed; close the output
\* channel and release r.mu.
TrStopFinish(k) ==
    /\ trMu = k
    /\ trListen = "done"
    /\ closes' = [closes EXCEPT !["trap"] = @ + 1]
    /\ trMu' = "free"
    /\ UNCHANGED <<trRunning, trListen>>

\* TrapReceiver.Start 516-522: the watcher goroutine sees ctx.Done and is
\* about to call Stop, or sees stopCh closed and returns.
WatcherWake ==
    /\ trWatcher = "wait"
    /\ \/ pipeCtx /\ trWatcher' = "stop"
       \/ trListen \in {"closing", "done"} /\ trWatcher' = "done"
    /\ UNCHANGED <<stopVars, startVars, schedEntries, traced, pipeCtx, goVars, chanVars, formatWg, wg,
                   trRunning, trMu, trListen, transportClosed, connPoolClosed>>
    /\ AppFrame

\* The watcher's call of Stop, first part.
WatcherStopEnter ==
    /\ trWatcher = "stop"
    /\ trMu = "free"
    /\ TrStopEnter("watcher")
    /\ trWatcher' = IF trRunning THEN "stop" ELSE "done"
    /\ UNCHANGED <<stopVars, startVars, schedEntries, traced, pipeCtx, goVars, chanVars, formatWg, wg,
                   transportClosed, connPoolClosed>>
    /\ AppFrame

\* The watcher's call of Stop, second part.
WatcherStopFinish ==
    /\ trWatcher = "stop"
    /\ TrStopFinish("watcher")
    /\ trWatcher' = "done"
    /\ UNCHANGED <<stopVars, startVars, schedEntries, traced, pipeCtx, goVars, buf, sentOnClosed,
                   formatWg, wg, transportClosed, connPoolClosed>>
    /\ AppFrame

\* Stop 274-276: cancel the pipeline context.
StopCancel ==
    /\ StopAt("cancel")
    /\ pipeCtx' = TRUE
    /\ StopAdvance
    /\ UNCHANGED <<startVars, schedEntries, traced, goVars, chanVars, formatWg, wg, trapVars,
                   transportClosed, connPoolClosed>>
    /\ AppFrame

\* Stop 279-281: Scheduler.Stop returns once s.done is closed.
StopSched ==
    /\ StopAt("schedStop")
    /\ schedGo = "done"
    /\ StopAdvance
    /\ UNCHANGED <<startVars, schedEntries, traced, pipeCtx, goVars, chanVars, formatWg, wg,
                   trapVars, transportClosed, connPoolClosed>>
    /\ AppFrame

\* Stop 284-286, WorkerPool.Stop 72: close the job channel.
StopCloseJobs ==
    /\ StopAt("workerPoolStop")
    /\ closes["jobs"] = 0
    /\ closes' = [closes EXCEPT !["jobs"] = @ + 1]
    /\ UNCHANGED <<stopVars, startVars, schedEntries, traced, pipeCtx, goVars, buf, sentOnClosed,
                   formatWg, wg, trapVars, transportClosed, connPoolClosed>>
    /\ AppFrame

\* WorkerPool.Stop 73: w.wg.Wait returns when every worker has returned.
StopWorkersWait ==
    /\ StopAt("workerPoolStop")
    /\ closes["jobs"] > 0
    /\ \A w \in Workers : wPc[w] = "done"
    /\ StopAdvance
    /\ UNCHANGED <<startVars, schedEntries, traced, pipeCtx, goVars, chanVars, formatWg, wg,
                   trapVars, transportClosed, connPoolClosed>>
    /\ AppFrame

\* Stop 289-291: close rawCh.
StopCloseRaw ==
    /\ StopAt("closeRaw")
    /\ closes' = [closes EXCEPT !["raw"] = @ + 1]
    /\ StopAdvance
    /\ UNCHANGED <<startVars, schedEntries, traced, pipeCtx, goVars, buf, sentOnClosed, formatWg, wg,
                   trapVars, transportClosed, connPoolClosed>>
    /\ AppFrame

\* Stop 294-296: a.trapReceiver.Stop(), skipped when a.trapReceiver is nil;
\* the call returns at once when the receiver is no longer running.
StopTrapEnter ==
    /\ StopAt("trapStop")
    /\ IF trapStarted
       THEN /\ TrStopEnter("app")
            /\ IF trRunning THEN UNCHANGED stopVars ELSE StopAdvance
       ELSE /\ trMu # "app"
            /\ StopAdvance
            /\ UNCHANGED <<trRunning, trListen, trMu>>
    /\ UNCHANGED <<startVars, schedEntries, traced, pipeCtx, goVars, chanVars, formatWg, wg,
                   trWatcher, transportClosed, connPoolClosed>>
    /\ AppFrame

\* Stop 294-296: the rest of a.trapReceiver.Stop() when it found the receiver
\* running.
StopTrapFinish ==
    /\ StopAt("trapStop")
    /\ TrStopFinish("app")
    /\ StopAdvance
    /\ UNCHANGED <<startVars, schedEntries, traced, pipeCtx, goVars, buf, sentOnClosed, formatWg, wg,
                   trWatcher, transportClosed, connPoolClosed>>
    /\ AppFrame

\* Stop 299: a.wg.Wait returns when the counter is zero.
StopWgWait ==
    /\ StopAt("wgWait")
    /\ wg = 0
    /\ StopAdvance
    /\ UNCHANGED <<startVars, schedEntries, traced, pipeCtx, goVars, chanVars, formatWg, wg,
                   trapVars, transportClosed, connPoolClosed>>
    /\ AppFrame

\* Stop 302-306: close the transport.
StopTransportClose ==
    /\ StopAt("transportClose")
    /\ transportClosed' = TRUE
    /\ StopAdvance
    /\ UNCHANGED <<startVars, schedEntries, traced, pipeCtx, goVars, chanVars, formatWg, wg,
                   trapVars, connPoolClosed>>
    /\ AppFrame

\* Stop 307-309: close the connection pool.
StopConnPoolClose ==
    /\ StopAt("connPoolClose")
    /\ connPoolClosed' = TRUE
    /\ StopAdvance
    /\ UNCHANGED <<startVars, schedEntries, traced, pipeCtx, goVars, chanVars, formatWg, wg,
                   trapVars, transportClosed>>
    /\ AppFrame

AppNext ==
    \/ StartTrap
    \/ StartAddFormatters
    \/ StartLaunch
    \/ ParentCancel
    \/ SchedDispatch
    \/ AppReload
    \/ SchedExit
    \/ \E w \in Workers : WorkerStep(w)
    \/ \E w \in Workers : WorkerExit(w)
    \/ \E s \in Stages : StageStep(s)
    \/ \E s \in Stages : StageExit(s)
    \/ CloserClose
    \/ TrapArrive
    \/ TrapListenExit
    \/ WatcherWake
    \/ WatcherStopEnter
    \/ WatcherStopFinish
    \/ StopCancel
    \/ StopSched
    \/ StopCloseJobs
    \/ StopWorkersWait
    \/ StopCloseRaw
    \/ StopTrapEnter
    \/ StopTrapFinish
    \/ StopWgWait
    \/ StopTransportClose
    \/ StopConnPoolClose


(***************************************************************************)
(* Application: properties.                                                *)
(***************************************************************************)
StageChans == {"raw", "decoded", "metric", "formatted"}

\* The goroutines that send on a stage channel have all returned.
SendersDone(ch) ==
    CASE ch = "raw" -> \A w \in Workers : wPc[w] = "done"
      [] ch = "decoded" -> stPc["decode"] = "done"
      [] ch = "metric" -> stPc["produce"] = "done"
      [] ch = "formatted" ->
            /\ stPc["format"] = "done"
            /\ trapStarted => stPc["trapFormat"] = "done"

\* C3: no send ever hits a closed channel; rawCh, decodedCh, metricCh and
\* formattedCh are closed at most once while running and exactly once when
\* Stop has returned, and each only after all its senders have returned:
\* formattedCh only after the poll formatter and, when the trap receiver
\* started, the trap formatter.
C3_ChannelsClosedAfterSenders ==
    /\ sentOnClosed = {}
    /\ \A ch \in StageChans :
          /\ closes[ch] <= 1
          /\ closes[ch] > 0 => SendersDone(ch)
          /\ aPc = "stopped" => closes[ch] = 1

\* The trap path ran and all four stage channels have been closed.
C3_Witness ==
    /\ trapStarted
    /\ \A ch \in StageChans : closes[ch] = 1
    /\ stPc["trapFormat"] = "done"

\* C10: App.Stop runs its steps in the order cancel, wait for the scheduler,
\* stop the worker pool, close rawCh, stop the trap receiver, wait for the
\* stage goroutines, close the transport, close the connection pool; the
\* effect of each step is complete when the step is logged and no effect of
\* a step shows before the step before it has completed.
C10_StopOrdered ==
    LET order == <<"cancel", "schedStop", "workerPoolStop", "closeRaw",
                   "trapStop", "wgWait", "transportClose", "connPoolClose">>
        done(k) == Len(stopLog) >= k
    IN  /\ Len(stopLog) <= Len(order)
        /\ \A i \in 1..Len(stopLog) : stopLog[i] = order[i]
        /\ done(1) => pipeCtx
        /\ done(2) => schedGo = "done"
        /\ closes["jobs"] > 0 => done(2)
        /\ done(3) => closes["jobs"] = 1 /\ \A w \in Workers : wPc[w] = "done"
        /\ closes["raw"] > 0 => done(3)
        /\ done(4) => closes["raw"] = 1
        /\ trMu = "app" => done(4)
        /\ done(5) /\ trapStarted =>
              ~trRunning /\ trListen = "done" /\ closes["trap"] = 1
        /\ done(6) => wg = 0 /\ \A s \in Launched(trapStarted) : stPc[s] = "done"
        /\ transportClosed => done(6)
        /\ done(7) => transportClosed
        /\ connPoolClosed => done(7)
        /\ done(8) => connPoolClosed

\* Stop has run to its end with the trap receiver started.
C10_Witness ==
    /\ aPc = "stopped"
    /\ trapStarted
    /\ Len(stopLog) = Len(StopOrder)
    /\ connPoolClosed

(***************************************************************************)
(* Worker pool on its own: WorkerPool.Start, TrySubmit, worker, Stop.      *)
(***************************************************************************)
NoResult == [err |-> FALSE, pdus |-> -1]

\* What Poll can return: an error or none, with or without varbinds.
PollResults == [err : BOOLEAN, pdus : {0, 1}]

SkippedNever(r) == FALSE
\* worker 86-98: a failed poll that brought no varbinds is skipped.
Skipped(r) == r.err /\ r.pdus = 0

\* Skipped polls of one worker that are told apart; further ones are counted
\* as the last.
MaxSkips == 2

WorkerFrame ==
    UNCHANGED <<schedVars, poolVars, appVars, pipeVars, counterVars, receiverVars,
                 pollVars, operVars, decVars, matchVars, reuseVars, resolveVars, limitVars, waitVars, keyVars>>

\* NewWorkerPool: empty job channel, no goroutine yet.
WorkerInit ==
    /\ wkPc = [w \in Workers |-> "off"]
    /\ wkHeld = [w \in Workers |-> NoResult]
    /\ wkJobs = 0
    /\ wkJobsClosed = FALSE
    /\ wkOutput = << >>
    /\ wkCtx = FALSE
    /\ wkDiscarded = {}
    /\ wkSkips = [w \in Workers |-> 0]

\* WorkerPool.Start 47-52: launch the worker goroutines.
WkStart ==
    /\ \A w \in Workers : wkPc[w] = "off"
    /\ wkPc' = [w \in Workers |-> "recv"]
    /\ UNCHANGED <<wkHeld, wkJobs, wkJobsClosed, wkOutput, wkCtx, wkDiscarded, wkSkips>>
    /\ WorkerFrame

\* TrySubmit 61-68 by the scheduler, before Stop: enqueue when there is room.
WkTrySubmit ==
    /\ ~wkJobsClosed
    /\ wkJobs < PollerWorkers * 2
    /\ wkJobs' = wkJobs + 1
    /\ UNCHANGED <<wkPc, wkHeld, wkJobsClosed, wkOutput, wkCtx, wkDiscarded, wkSkips>>
    /\ WorkerFrame

\* worker 81-99: receive a job and poll it; skip a failed poll without
\* varbinds, else go on to the send.
WkRecv(w) ==
    /\ wkPc[w] = "recv"
    /\ wkJobs > 0
    /\ wkJobs' = wkJobs - 1
    /\ \E r \in PollResults :
          IF Skipped(r)
          THEN /\ wkSkips' = [wkSkips EXCEPT ![w] =
                                 IF @ < MaxSkips THEN @ + 1 ELSE @]
               /\ UNCHANGED <<wkPc, wkHeld>>
          ELSE /\ wkPc' = [wkPc EXCEPT ![w] = "send"]
               /\ wkHeld' = [wkHeld EXCEPT ![w] = r]
               /\ UNCHANGED wkSkips
    /\ UNCHANGED <<wkJobsClosed, wkOutput, wkCtx, wkDiscarded>>
    /\ WorkerFrame

\* worker 100-101: the output channel has room and takes the result.
WkSend(w) ==
    /\ wkPc[w] = "send"
    /\ Len(wkOutput) < BufferSize
    /\ wkOutput' = Append(wkOutput, wkHeld[w])
    /\ wkPc' = [wkPc EXCEPT ![w] = "recv"]
    /\ wkHeld' = [wkHeld EXCEPT ![w] = NoResult]
    /\ UNCHANGED <<wkJobs, wkJobsClosed, wkCtx, wkDiscarded, wkSkips>>
    /\ WorkerFrame

\* worker 102-103: ctx.Done is taken in the select around the send; the
\* worker returns and the result it held is gone.
WkSendCancelled(w) ==
    /\ wkPc[w] = "send"
    /\ wkCtx
    /\ wkDiscarded' = wkDiscarded \cup {wkHeld[w]}
    /\ wkPc' = [wkPc EXCEPT ![w] = "done"]
    /\ wkHeld' = [wkHeld EXCEPT ![w] = NoResult]
    /\ UNCHANGED <<wkJobs, wkJobsClosed, wkOutput, wkCtx, wkSkips>>
    /\ WorkerFrame

\* worker 81-84, 105-106: return when the job channel is closed and empty,
\* or on ctx.Done while waiting for a job.
WkExit(w) ==
    /\ wkPc[w] = "recv"
    /\ \/ wkCtx
       \/ wkJobsClosed /\ wkJobs = 0
    /\ wkPc' = [wkPc EXCEPT ![w] = "done"]
    /\ UNCHANGED <<wkHeld, wkJobs, wkJobsClosed, wkOutput, wkCtx, wkDiscarded, wkSkips>>
    /\ WorkerFrame

\* The reader of the output channel (the decode stage) takes a result.
WkConsume ==
    /\ wkOutput # << >>
    /\ wkOutput' = Tail(wkOutput)
    /\ UNCHANGED <<wkPc, wkHeld, wkJobs, wkJobsClosed, wkCtx, wkDiscarded, wkSkips>>
    /\ WorkerFrame

\* The context is cancelled (shutdown has begun).
WkCancel ==
    /\ ~wkCtx
    /\ wkCtx' = TRUE
    /\ UNCHANGED <<wkPc, wkHeld, wkJobs, wkJobsClosed, wkOutput, wkDiscarded, wkSkips>>
    /\ WorkerFrame

\* WorkerPool.Stop 72: close the job channel.
WkStop ==
    /\ ~wkJobsClosed
    /\ \A w \in Workers : wkPc[w] # "off"
    /\ wkJobsClosed' = TRUE
    /\ UNCHANGED <<wkPc, wkHeld, wkJobs, wkOutput, wkCtx, wkDiscarded, wkSkips>>
    /\ WorkerFrame

WorkerNext ==
    \/ WkStart
    \/ WkTrySubmit
    \/ \E w \in Workers : WkRecv(w)
    \/ \E w \in Workers : WkSend(w)
    \/ \E w \in Workers : WkSendCancelled(w)
    \/ \E w \in Workers : WkExit(w)
    \/ WkConsume
    \/ WkCancel
    \/ WkStop

\* C11: a worker that holds a poll result with at least one PDU leaves the
\* send only by handing the result to the output channel, whether the
\* channel is full or shutdown has begun.
C11_ResultNeverDiscarded ==
    [][\A w \in Workers :
          (wkPc[w] = "send" /\ wkHeld[w].pdus > 0 /\ wkPc'[w] # "send")
              => wkOutput' = Append(wkOutput, wkHeld[w])]_vars

\* C24: when a poll returns an error together with no PDUs, the worker sends
\* nothing on the output channel for that job (no such result is ever held
\* for sending or buffered, and the step that skips it leaves the channel as
\* it is) and goes on to process later jobs (it is back at the receive of
\* its loop).
C24_EmptyFailedPollSkipped ==
    /\ [](\A i \in 1..Len(wkOutput) : ~(wkOutput[i].err /\ wkOutput[i].pdus = 0))
    /\ [](\A w \in Workers : ~(wkHeld[w].err /\ wkHeld[w].pdus = 0))
    /\ [][\A w \in Workers :
            wkSkips'[w] # wkSkips[w] =>
                /\ wkOutput' = wkOutput
                /\ wkHeld' = wkHeld
                /\ wkPc'[w] = "recv"
                /\ wkJobs' = wkJobs - 1
         ]_vars

\* A worker that skipped a failed poll without varbinds has since received
\* a later job and holds its result for sending.
C24_Witness ==
    \E w \in Workers :
        /\ wkSkips[w] = MaxSkips
        /\ wkPc[w] = "send"
        /\ wkHeld[w] # NoResult

(***************************************************************************)
(* Decode and produce stages: VarbindParser.Parse, SNMPDecoder.Decode,     *)
(* startDecodeStage, MetricsProducer.Produce, Build, CounterState.Delta.   *)
(***************************************************************************)

\* uint64 values are kept as four base-2^16 digits, least significant first,
\* so that sums and differences wrap at 2^64 as the machine's do.
Digit == 2^16
U64(n) == <<n % Digit, n \div Digit, 0, 0>>
Zero64 == U64(0)
MaxU32 == <<Digit - 1, Digit - 1, 0, 0>>
MaxU64 == <<Digit - 1, Digit - 1, Digit - 1, Digit - 1>>

AddU64(a, b) ==
    LET s1 == a[1] + b[1]
        s2 == a[2] + b[2] + (s1 \div Digit)
        s3 == a[3] + b[3] + (s2 \div Digit)
        s4 == a[4] + b[4] + (s3 \div Digit)
    IN  <<s1 % Digit, s2 % Digit, s3 % Digit, s4 % Digit>>

SubU64(a, b) ==
    AddU64(AddU64(a, <<Digit - 1 - b[1], Digit - 1 - b[2],
                       Digit - 1 - b[3], Digit - 1 - b[4]>>), U64(1))

LessU64(a, b) ==
    \E i \in 1..4 : a[i] < b[i] /\ \A j \in (i + 1)..4 : a[j] = b[j]

\* The object definition polled: attribute OID -> AttributeDefinition.  Four
\* measurement attributes share the metric name "traffic", one has its own,
\* and "descr" is a tag.
AttrDef ==
    [o \in {"c64", "c32", "g32", "bits", "mbits", "descr"} |->
        CASE o = "c64"   -> [Name |-> "traffic", Syntax |-> "Counter64",
                             IsTag |-> FALSE]
          [] o = "c32"   -> [Name |-> "traffic", Syntax |-> "Counter32",
                             IsTag |-> FALSE]
          [] o = "g32"   -> [Name |-> "traffic", Syntax |-> "Gauge32",
                             IsTag |-> FALSE]
          [] o = "bits"  -> [Name |-> "traffic", Syntax |-> "BandwidthBits",
                             IsTag |-> FALSE]
          [] o = "mbits" -> [Name |-> "speed", Syntax |-> "BandwidthMBits",
                             IsTag |-> FALSE]
          [] o = "descr" -> [Name |-> "descr", Syntax |-> "DisplayString",
                             IsTag |-> TRUE]]
AttrOids == DOMAIN AttrDef
Names == {AttrDef[o].Name : o \in AttrOids}
Instances == {"1", "2"}

\* The PDUs a device may answer with: an unsigned number for every measurement
\* attribute, octets for the tag and (a misbehaving agent) for the Counter32
\* column, NoSuchInstance, and an OID outside the object's tree.
PduSet ==
    {p \in [oid : AttrOids \cup {"other"}, inst : Instances,
            type : {"uint", "octets", "NoSuchInstance"}] :
        \/ p.type = "uint" /\ p.oid \in AttrOids \ {"descr"}
        \/ p.type = "octets" /\ p.oid \in {"descr", "c32"}
        \/ p.type = "NoSuchInstance" /\ p.oid = "c64" /\ p.inst = "1"
        \/ p.type = "uint" /\ p.oid = "other" /\ p.inst = "1"}

\* The number a "uint" PDU carries, and the code of an octet string's text.
RawValue(type) == IF type = "uint" THEN U64(400) ELSE U64(7)

RawResultsOfLen(n) == [1..n -> PduSet]

\* types.go 68-70
IsErrorType(type) == type = "NoSuchInstance"

\* varbind.go matchAttribute: the OID has an attribute's OID as prefix.
matchAttribute(oid) == oid \in AttrOids

\* types.go 88-212, 241-287: toUint64 and toFloat64 accept numbers only,
\* toDisplayString accepts everything; BandwidthMBits scales by 10^6, which
\* the model keeps as the value's type only.
ConvertValue(type, syntax) ==
    CASE syntax \in {"Counter32", "Counter64", "Gauge32"} ->
            IF type = "uint"
            THEN [err |-> FALSE, value |-> [type |-> "uint64", v |-> RawValue(type)]]
            ELSE [err |-> TRUE, value |-> [type |-> "nil", v |-> Zero64]]
      [] syntax \in {"BandwidthBits", "BandwidthMBits"} ->
            IF type = "uint"
            THEN [err |-> FALSE, value |-> [type |-> "float64", v |-> RawValue(type)]]
            ELSE [err |-> TRUE, value |-> [type |-> "nil", v |-> Zero64]]
      [] OTHER ->
            [err |-> FALSE, value |-> [type |-> "string", v |-> RawValue(type)]]

NothingDecoded(result) == << >>
\* Parse 105-113: on a failed conversion the varbinds appended so far are
\* returned with the error.
PartialResult(result) == result

\* Parse 86-127: PDUs are taken in order; error sentinels and OIDs outside the
\* object are skipped; the first failed conversion returns what was decoded so
\* far together with the error.  Pdu records the source PDU's position for
\* the properties; the program has no such field.
RECURSIVE ParseFrom(_, _, _)
ParseFrom(pdus, i, result) ==
    IF i > Len(pdus) THEN [varbinds |-> result, err |-> FALSE]
    ELSE IF IsErrorType(pdus[i].type) THEN ParseFrom(pdus, i + 1, result)
    ELSE IF ~matchAttribute(pdus[i].oid) THEN ParseFrom(pdus, i + 1, result)
    ELSE LET attr == AttrDef[pdus[i].oid]
             cv == ConvertValue(pdus[i].type, attr.Syntax)
         IN  IF cv.err THEN [varbinds |-> PartialResult(result), err |-> TRUE]
             ELSE ParseFrom(pdus, i + 1,
                      Append(result,
                          [OID |-> pdus[i].oid,
                           AttributeName |-> attr.Name,
                           Instance |-> pdus[i].inst,
                           Value |-> cv.value,
                           Syntax |-> attr.Syntax,
                           IsTag |-> attr.IsTag,
                           Pdu |-> i]))

Parse(pdus) == ParseFrom(pdus, 1, << >>)

\* Decode 107-166: nothing to do for an empty result; NewVarbindParser cannot
\* fail here (the object has attributes with OIDs); otherwise what Parse
\* returned, partial varbinds and error alike.
Decode(raw) ==
    IF Len(raw) = 0 THEN [varbinds |-> << >>, err |-> FALSE] ELSE Parse(raw)

\* poll.go syntaxPriority 373-390
syntaxPriority(syntax) ==
    CASE syntax = "Counter64" -> 20
      [] syntax = "Counter32" -> 10
      [] syntax = "BandwidthGBits" -> 14
      [] syntax = "BandwidthMBits" -> 13
      [] syntax = "BandwidthKBits" -> 12
      [] syntax \in {"BandwidthBits", "Gauge32"} -> 11
      [] OTHER -> 0

\* poll.go IsCounterSyntax 352-359, WrapForSyntax 363-368, toUint64Safe
IsCounterSyntax(syntax) == syntax \in {"Counter32", "Counter64"}
WrapAlways64(syntax) == MaxU64
WrapForSyntax(syntax) == IF syntax = "Counter32" THEN MaxU32 ELSE MaxU64
toUint64Safe(value) == value.type = "uint64"

\* Build 80: the candidate replaces the one kept so far.
OverridesOrTies(vb, existing) ==
    syntaxPriority(vb.Syntax) >= syntaxPriority(existing.Syntax)
Overrides(vb, existing) ==
    syntaxPriority(vb.Syntax) > syntaxPriority(existing.Syntax)

NoVb == [OID |-> "none", AttributeName |-> "none", Instance |-> "none",
         Value |-> [type |-> "nil", v |-> Zero64], Syntax |-> "none",
         IsTag |-> FALSE, Pdu |-> 0]

\* Build 62-71: metricsByInstance[instance], in varbind order.
metricsByInstance(varbinds, instance) ==
    SelectSeq(varbinds, LAMBDA vb : ~vb.IsTag /\ vb.Instance = instance)

\* Build 76-85: byName for one instance.
RECURSIVE byNameFrom(_, _, _)
byNameFrom(vbs, i, byName) ==
    IF i > Len(vbs) THEN byName
    ELSE LET vb == vbs[i]
             existing == byName[vb.AttributeName]
         IN  byNameFrom(vbs, i + 1,
                 IF existing = NoVb \/ Overrides(vb, existing)
                 THEN [byName EXCEPT ![vb.AttributeName] = vb]
                 ELSE byName)

resolved(varbinds) ==
    [instance \in Instances |->
        byNameFrom(metricsByInstance(varbinds, instance), 1,
                   [n \in Names |-> NoVb])]

\* Delta on a key without stored state answered as if zero had been stored.
DeltaOfUnseeded(prev, current, t, wrap) ==
    [Valid |-> TRUE, Delta |-> SubU64(current, prev.Value)]

\* The keys of the maps Build ranges over: the instances with a measurement
\* varbind, and per instance the names that have a winner.
ResolvedInstances(res) ==
    {instance \in Instances : \E n \in Names : res[instance][n] # NoVb}
ResolvedNames(res, instance) ==
    {n \in Names : res[instance][n] # NoVb}

\* A Go map is ranged over in an order the runtime picks anew each time.
Perms(S) ==
    {s \in [1..Cardinality(S) -> S] : \A x \in S : \E i \in DOMAIN s : s[i] = x}

\* ---- counter state (CounterState 238-318)
CounterKeys == [Attribute : Names, Instance : Instances]
NoCounterEntry == [Value |-> Zero64, SeenAt |-> -1]

\* The goroutines that call into the counter state, the keys they use (the
\* Counter32 column "c32" of both instances) and the samples they bring.
Producers == {"p1", "p2"}
TrafficKey(instance) == [Attribute |-> "traffic", Instance |-> instance]
Samples32 == {U64(400), <<Digit - 100, Digit - 1, 0, 0>>}

\* Delta that computes a difference whatever the time elapsed.
DeltaOfAnyElapsed(prev, current, t, wrap) ==
    IF prev = NoCounterEntry
    THEN [Valid |-> FALSE, Delta |-> Zero64]
    ELSE [Valid |-> TRUE,
          Delta |-> IF ~LessU64(current, prev.Value)
                    THEN SubU64(current, prev.Value)
                    ELSE AddU64(AddU64(SubU64(wrap, prev.Value), current),
                                U64(1))]

\* Delta 293-317, the part under the mutex: store the sample, then compare
\* with what was stored before.
DeltaOf(prev, current, t, wrap) ==
    IF prev = NoCounterEntry \/ t - prev.SeenAt <= 0
    THEN [Valid |-> FALSE, Delta |-> Zero64]
    ELSE [Valid |-> TRUE,
          Delta |-> IF ~LessU64(current, prev.Value)
                    THEN SubU64(current, prev.Value)
                    ELSE AddU64(AddU64(SubU64(wrap, prev.Value), current),
                                U64(1))]

\* Build 94-146: one pass over the winners in the order the two map ranges
\* produce them; order is the sequence of <<instance, name>> visited.
RECURSIVE assemble(_, _, _, _, _, _, _)
assemble(res, order, i, ents, t, counters, metrics) ==
    IF i > Len(order) THEN [metrics |-> metrics, entries |-> ents]
    ELSE LET vb == res[order[i][1]][order[i][2]]
             key == [Attribute |-> vb.AttributeName, Instance |-> order[i][1]]
             counted == counters /\ IsCounterSyntax(vb.Syntax)
                            /\ toUint64Safe(vb.Value)
             dr == DeltaOf(ents[key], vb.Value.v, t, WrapForSyntax(vb.Syntax))
             value == IF counted
                      THEN [type |-> "uint64",
                            v |-> IF dr.Valid THEN dr.Delta ELSE Zero64]
                      ELSE vb.Value
         IN  assemble(res, order, i + 1,
                 IF counted
                 THEN [ents EXCEPT ![key] = [Value |-> vb.Value.v, SeenAt |-> t]]
                 ELSE ents,
                 t, counters,
                 Append(metrics,
                     [OID |-> vb.OID, Name |-> vb.AttributeName,
                      Instance |-> order[i][1], Value |-> value,
                      Syntax |-> vb.Syntax, Pdu |-> vb.Pdu]))

\* The visiting orders the two nested map ranges can produce.
RECURSIVE Visits(_, _)
Visits(instOrder, nameOrder) ==
    IF instOrder = << >> THEN << >>
    ELSE [j \in 1..Len(nameOrder[Head(instOrder)]) |->
              <<Head(instOrder), nameOrder[Head(instOrder)][j]>>]
         \o Visits(Tail(instOrder), nameOrder)

BuildOrders(res) ==
    LET nameOrders == [inst \in Instances |-> Perms(ResolvedNames(res, inst))]
    IN  {Visits(io, no) :
            io \in Perms(ResolvedInstances(res)),
            no \in {f \in [Instances -> UNION {nameOrders[inst] :
                                                  inst \in Instances}] :
                      \A inst \in Instances : f[inst] \in nameOrders[inst]}}

\* Build 94-146 for one visiting order: the batch and the counter state left.
Build(res, order, ents, t, counters) ==
    assemble(res, order, 1, ents, t, counters, << >>)

\* The keys Build's Delta calls find no stored state for.
Unseeded(res, ents, counters) ==
    {k \in CounterKeys :
        /\ counters
        /\ res[k.Instance][k.Attribute] # NoVb
        /\ IsCounterSyntax(res[k.Instance][k.Attribute].Syntax)
        /\ ents[k] = NoCounterEntry}

PipeFrame ==
    UNCHANGED <<schedRest, poolVars, appVars, workerVars, receiverVars, counterRest,
                 pollVars, operVars, decVars, matchVars, reuseVars, resolveVars, limitVars, waitVars, keyVars>>

\* Before producer.New: no stage runs, the counter map is empty.
PipeInit ==
    /\ dPc = "new"
    /\ dCounters = FALSE
    /\ dRaw = << >>
    /\ dAt = 0
    /\ dDecoded = << >>
    /\ dMetrics = << >>
    /\ dSeeded = {}
    /\ entries = [k \in CounterKeys |-> NoCounterEntry]
    /\ csMu = "free"
    /\ kPc = [c \in Producers |-> "idle"]
    /\ kKey = [c \in Producers |-> TrafficKey("1")]
    /\ kCur = [c \in Producers |-> Zero64]
    /\ kNow = [c \in Producers |-> 0]
    /\ kPrev = [c \in Producers |-> NoCounterEntry]
    /\ kAfterDelete = [c \in Producers |-> FALSE]
    /\ hDeleted = {}
    /\ hSeed = [k \in CounterKeys |-> Zero64]
    /\ hSum = [k \in CounterKeys |-> Zero64]

\* producer.New 62-79: counter state exists iff cfg.CounterDeltaEnabled.
NewProducer(on) ==
    /\ dPc = "new"
    /\ dPc' = "idle"
    /\ dCounters' = on
    /\ UNCHANGED <<now, entries, dRaw, dAt, dDecoded, dMetrics, dSeeded>>
    /\ PipeFrame

\* Time passes between two polls.
PipeTick ==
    /\ dPc = "idle"
    /\ now < MaxTime
    /\ now' = now + 1
    /\ UNCHANGED <<entries, pipeVars>>
    /\ PipeFrame

\* A worker hands a poll result to rawCh (Poll 89-90 stamps CollectedAt).
PollArrives ==
    /\ dPc = "idle"
    /\ \E n \in 0..MaxPdus : \E raw \in RawResultsOfLen(n) : dRaw' = raw
    /\ dPc' = "raw"
    /\ dAt' = now
    /\ UNCHANGED <<now, entries, dCounters, dDecoded, dMetrics, dSeeded>>
    /\ PipeFrame

\* startDecodeStage 351-364, one iteration: a Decode error or an empty
\* result is skipped with "continue", anything else goes to decodedCh.
DecodeStage ==
    /\ dPc = "raw"
    /\ LET d == Decode(dRaw)
       IN  IF d.err \/ Len(d.varbinds) = 0
           THEN dPc' = "idle" /\ dDecoded' = << >>
           ELSE dPc' = "decoded" /\ dDecoded' = d.varbinds
    /\ dRaw' = << >>
    /\ UNCHANGED <<now, entries, dCounters, dAt, dMetrics, dSeeded>>
    /\ PipeFrame

\* startProduceStage 374-388, one iteration: Produce calls Build; an empty
\* batch is skipped, anything else goes to metricCh.  dDecoded stays what the
\* loop variable "decoded" holds until the batch is taken from metricCh.
ProduceStage ==
    /\ dPc = "decoded"
    /\ LET res == resolved(dDecoded)
       IN  \E order \in BuildOrders(res) :
             LET b == Build(res, order, entries, dAt, dCounters)
             IN  /\ entries' = b.entries
                 /\ IF Len(b.metrics) = 0
                    THEN /\ dPc' = "idle"
                         /\ dMetrics' = << >>
                         /\ dSeeded' = {}
                         /\ dDecoded' = << >>
                    ELSE /\ dPc' = "built"
                         /\ dMetrics' = b.metrics
                         /\ dSeeded' = Unseeded(res, entries, dCounters)
                         /\ dDecoded' = dDecoded
    /\ UNCHANGED <<now, dCounters, dRaw, dAt>>
    /\ PipeFrame

\* startFormatStage 402-412 takes the batch from metricCh.
FormatStage ==
    /\ dPc = "built"
    /\ dPc' = "idle"
    /\ dMetrics' = << >>
    /\ dSeeded' = {}
    /\ dDecoded' = << >>
    /\ UNCHANGED <<now, entries, dCounters, dRaw, dAt>>
    /\ PipeFrame

PipeNext ==
    \/ \E on \in BOOLEAN : NewProducer(on)
    \/ PipeTick
    \/ PollArrives
    \/ DecodeStage
    \/ ProduceStage
    \/ FormatStage

\* C12: a poll result whose decoding failed on a value conversion after at
\* least one varbind was decoded leaves the decode stage on decodedCh, with
\* those varbinds.
C12_PartialResultPassedOn ==
    [][(dPc = "raw" /\ dPc' # "raw" /\ Decode(dRaw).err
            /\ Decode(dRaw).varbinds # << >>)
          => (dPc' = "decoded" /\ dDecoded' = Decode(dRaw).varbinds)]_vars

\* The counter key of a metric (Build 113-117).
KeyOf(metric) == [Attribute |-> metric.Name, Instance |-> metric.Instance]

\* C14: with counter state enabled, a metric built from the first observation
\* of a counter key (no stored state when Build ran) has the value uint64 0,
\* not the raw counter value.
C14_FirstObservationIsZero ==
    dPc = "built" =>
        \A i \in DOMAIN dMetrics :
            KeyOf(dMetrics[i]) \in dSeeded
                => dMetrics[i].Value = [type |-> "uint64", v |-> Zero64]

C14_Witness ==
    /\ dPc = "built"
    /\ \E i \in DOMAIN dMetrics :
          /\ KeyOf(dMetrics[i]) \in dSeeded
          /\ dMetrics[i].Syntax = "Counter32"
          /\ dMetrics[i].Value.v = Zero64
          /\ \E k \in DOMAIN dDecoded :
                dDecoded[k].Pdu = dMetrics[i].Pdu /\ dDecoded[k].Value.v = U64(400)

\* The measurement varbinds of one instance that resolve to one metric name.
Candidates(varbinds, instance, name) ==
    {k \in DOMAIN varbinds :
        /\ ~varbinds[k].IsTag
        /\ varbinds[k].Instance = instance
        /\ varbinds[k].AttributeName = name}

\* The precedence of syntaxes the override rule is stated with.
StatedRank(syntax) ==
    CASE syntax = "Counter64" -> 6
      [] syntax = "BandwidthGBits" -> 5
      [] syntax = "BandwidthMBits" -> 4
      [] syntax = "BandwidthKBits" -> 3
      [] syntax \in {"BandwidthBits", "Gauge32"} -> 2
      [] syntax = "Counter32" -> 1
      [] OTHER -> 0

\* The candidate that should win: highest rank, earliest among equals.
Wins(varbinds, cand, k) ==
    \A k2 \in cand :
        \/ StatedRank(varbinds[k].Syntax) > StatedRank(varbinds[k2].Syntax)
        \/ /\ StatedRank(varbinds[k].Syntax) = StatedRank(varbinds[k2].Syntax)
           /\ k <= k2

C19_PduOrderPreserved ==
    dPc = "built" =>
        \A i, j \in DOMAIN dMetrics :
            (i < j /\ dMetrics[i].Instance # dMetrics[j].Instance)
                => dMetrics[i].Pdu < dMetrics[j].Pdu

(***************************************************************************)
(* Counter state on its own: concurrent callers of Delta, Remove, Purge.   *)
(***************************************************************************)
CounterFrame ==
    UNCHANGED <<schedRest, poolVars, appVars, workerVars, pipeVars, receiverVars,
                 pollVars, operVars, decVars, matchVars, reuseVars, resolveVars, limitVars, waitVars, keyVars>>

\* s.mu.Lock() returns only while nobody holds the mutex.
MuIgnored(m) == TRUE
MuFree(m) == m = "free"

\* delete(s.entries, key)
NotDeleted(ents, key) == ents
Deleted(ents, key) == [ents EXCEPT ![key] = NoCounterEntry]

\* Purge 335-342: the keys whose last observation is before the cutoff.
Expired(ents, cutoff) ==
    {k \in CounterKeys : ents[k] # NoCounterEntry /\ ents[k].SeenAt < cutoff}

RECURSIVE DeletedAll(_, _)
DeletedAll(ents, keys) ==
    IF keys = {} THEN ents
    ELSE LET k == CHOOSE x \in keys : TRUE
         IN  DeletedAll(Deleted(ents, k), keys \ {k})

\* Build 98: what the metric carries for a DeltaResult.
Emitted(dr) == IF dr.Valid THEN dr.Delta ELSE Zero64

kLocals == <<kKey, kCur, kNow, kPrev, kAfterDelete>>
hVars == <<hDeleted, hSeed, hSum>>

\* Time passes.
CounterTick ==
    /\ now < MaxTime
    /\ now' = now + 1
    /\ UNCHANGED <<entries, counterRest, pipeVars>>
    /\ CounterFrame

\* Build 112-118: Delta is called with a key, a sample and the poll's
\* CollectedAt.
DeltaCall(c, instance, current) ==
    /\ kPc[c] = "idle"
    /\ kPc' = [kPc EXCEPT ![c] = "dLock"]
    /\ kKey' = [kKey EXCEPT ![c] = TrafficKey(instance)]
    /\ kCur' = [kCur EXCEPT ![c] = current]
    /\ kNow' = [kNow EXCEPT ![c] = now]
    /\ UNCHANGED <<now, entries, csMu, kPrev, kAfterDelete, hVars, pipeVars>>
    /\ CounterFrame

\* Delta 290: s.mu.Lock() returns.
DeltaLock(c) ==
    /\ kPc[c] = "dLock"
    /\ MuFree(csMu)
    /\ csMu' = c
    /\ kPc' = [kPc EXCEPT ![c] = "load"]
    /\ UNCHANGED <<now, entries, kLocals, hVars, pipeVars>>
    /\ CounterFrame

\* Delta 293: prev, exists := s.entries[key]
DeltaLoad(c) ==
    /\ kPc[c] = "load"
    /\ kPc' = [kPc EXCEPT ![c] = "store"]
    /\ kPrev' = [kPrev EXCEPT ![c] = entries[kKey[c]]]
    /\ kAfterDelete' = [kAfterDelete EXCEPT ![c] = kKey[c] \in hDeleted]
    /\ UNCHANGED <<now, entries, csMu, kKey, kCur, kNow, hVars, pipeVars>>
    /\ CounterFrame

\* Delta 294: s.entries[key] = counterEntry{current, now}
DeltaStore(c) ==
    /\ kPc[c] = "store"
    /\ kPc' = [kPc EXCEPT ![c] = "stored"]
    /\ entries' = [entries EXCEPT ![kKey[c]] =
                       [Value |-> kCur[c], SeenAt |-> kNow[c]]]
    /\ hDeleted' = hDeleted \ {kKey[c]}
    /\ UNCHANGED <<now, csMu, kLocals, hSeed, hSum, pipeVars>>
    /\ CounterFrame

\* Delta 296-317: the DeltaResult the call is about to return.
Returning(c) == DeltaOf(kPrev[c], kCur[c], kNow[c], WrapForSyntax("Counter32"))

\* The caller's locals are gone once its call has returned.
Forget(c) ==
    /\ kPc' = [kPc EXCEPT ![c] = "idle"]
    /\ kKey' = [kKey EXCEPT ![c] = TrafficKey("1")]
    /\ kCur' = [kCur EXCEPT ![c] = Zero64]
    /\ kNow' = [kNow EXCEPT ![c] = 0]
    /\ kPrev' = [kPrev EXCEPT ![c] = NoCounterEntry]
    /\ kAfterDelete' = [kAfterDelete EXCEPT ![c] = FALSE]

\* Delta 296-317 and the deferred Unlock: compute the result and return.
DeltaReturn(c) ==
    /\ kPc[c] = "stored"
    /\ hSeed' = IF Returning(c).Valid THEN hSeed
                ELSE [hSeed EXCEPT ![kKey[c]] = kCur[c]]
    /\ hSum' = [hSum EXCEPT ![kKey[c]] =
                    IF Returning(c).Valid
                    THEN AddU64(@, Returning(c).Delta) ELSE Zero64]
    /\ Forget(c)
    /\ csMu' = IF csMu = c THEN "free" ELSE csMu
    /\ UNCHANGED <<now, entries, hDeleted, pipeVars>>
    /\ CounterFrame

\* Remove 322-326: called with a key; lock, delete the key, unlock.
RemoveCall(c, instance) ==
    /\ kPc[c] = "idle"
    /\ kPc' = [kPc EXCEPT ![c] = "rLock"]
    /\ kKey' = [kKey EXCEPT ![c] = TrafficKey(instance)]
    /\ UNCHANGED <<now, entries, csMu, kCur, kNow, kPrev, kAfterDelete, hVars,
                   pipeVars>>
    /\ CounterFrame

RemoveLock(c) ==
    /\ kPc[c] = "rLock"
    /\ MuFree(csMu)
    /\ csMu' = c
    /\ kPc' = [kPc EXCEPT ![c] = "remove"]
    /\ UNCHANGED <<now, entries, kLocals, hVars, pipeVars>>
    /\ CounterFrame

RemoveDelete(c) ==
    /\ kPc[c] = "remove"
    /\ entries' = Deleted(entries, kKey[c])
    /\ hDeleted' = IF entries[kKey[c]] # NoCounterEntry
                   THEN hDeleted \cup {kKey[c]} ELSE hDeleted
    /\ hSeed' = [hSeed EXCEPT ![kKey[c]] = Zero64]
    /\ hSum' = [hSum EXCEPT ![kKey[c]] = Zero64]
    /\ Forget(c)
    /\ csMu' = IF csMu = c THEN "free" ELSE csMu
    /\ UNCHANGED <<now, pipeVars>>
    /\ CounterFrame

\* Purge 331-344: called with the caller's clock reading; lock, delete every
\* entry last seen before now - maxAge, unlock.
PurgeCall(c) ==
    /\ kPc[c] = "idle"
    /\ kPc' = [kPc EXCEPT ![c] = "pLock"]
    /\ kNow' = [kNow EXCEPT ![c] = now]
    /\ UNCHANGED <<now, entries, csMu, kKey, kCur, kPrev, kAfterDelete, hVars,
                   pipeVars>>
    /\ CounterFrame

PurgeLock(c) ==
    /\ kPc[c] = "pLock"
    /\ MuFree(csMu)
    /\ csMu' = c
    /\ kPc' = [kPc EXCEPT ![c] = "purge"]
    /\ UNCHANGED <<now, entries, kLocals, hVars, pipeVars>>
    /\ CounterFrame

PurgeSweep(c, maxAge) ==
    /\ kPc[c] = "purge"
    /\ LET expired == Expired(entries, kNow[c] - maxAge)
       IN  /\ entries' = DeletedAll(entries, expired)
           /\ hDeleted' = hDeleted \cup expired
           /\ hSeed' = [k \in CounterKeys |->
                           IF k \in expired THEN Zero64 ELSE hSeed[k]]
           /\ hSum' = [k \in CounterKeys |->
                          IF k \in expired THEN Zero64 ELSE hSum[k]]
    /\ Forget(c)
    /\ csMu' = IF csMu = c THEN "free" ELSE csMu
    /\ UNCHANGED <<now, pipeVars>>
    /\ CounterFrame

CounterNext ==
    \/ CounterTick
    \/ \E c \in Producers, i \in Instances, v \in Samples32 : DeltaCall(c, i, v)
    \/ \E c \in Producers : DeltaLock(c)
    \/ \E c \in Producers : DeltaLoad(c)
    \/ \E c \in Producers : DeltaStore(c)
    \/ \E c \in Producers : DeltaReturn(c)
    \/ \E c \in Producers, i \in Instances : RemoveCall(c, i)
    \/ \E c \in Producers : RemoveLock(c)
    \/ \E c \in Producers : RemoveDelete(c)
    \/ \E c \in Producers : PurgeCall(c)
    \/ \E c \in Producers : PurgeLock(c)
    \/ \E c \in Producers, maxAge \in 0..1 : PurgeSweep(c, maxAge)

\* C15: a Delta that is the first on its key since Remove or Purge deleted
\* the key's entry returns Valid = false, so the value emitted is 0.
C15_DeletedKeyReseeds ==
    \A c \in Producers :
        (kPc[c] = "stored" /\ kAfterDelete[c])
            => (~Returning(c).Valid /\ Emitted(Returning(c)) = Zero64)

\* The deleted entry held another value, seen earlier than this sample.
C15_Witness ==
    \E c \in Producers :
        /\ kPc[c] = "stored"
        /\ kAfterDelete[c]
        /\ kPrev[c] = NoCounterEntry
        /\ kCur[c] = U64(400)
        /\ kNow[c] = MaxTime
        /\ ~Returning(c).Valid

\* The low 32 bits of a uint64.
Lo32(x) == <<x[1], x[2], 0, 0>>

\* The callers that have stored their sample and not yet returned.
Storing(k) == {c \in Producers : kPc[c] = "stored" /\ kKey[c] = k}

\* What C16 says of Counter32 deltas, with the delta its example expects.
Counter32Law(example) ==
    /\ \A c \in Producers :
          (kPc[c] = "stored" /\ Returning(c).Valid) =>
              LET prev == kPrev[c].Value
                  d == Returning(c).Delta
              IN  /\ d = Lo32(d)
                  /\ Lo32(AddU64(prev, d)) = kCur[c]
                  /\ ~LessU64(kCur[c], prev) => d = SubU64(kCur[c], prev)
                  /\ LessU64(kCur[c], prev) =>
                        d = AddU64(AddU64(SubU64(MaxU32, prev), kCur[c]), U64(1))
                  /\ (prev = <<Digit - 100, Digit - 1, 0, 0>>
                          /\ kCur[c] = U64(400)) => d = example
    /\ \A k \in CounterKeys :
          (entries[k] # NoCounterEntry /\ Storing(k) = {}) =>
              Lo32(hSum[k]) = Lo32(SubU64(entries[k].Value, hSeed[k]))

\* C16 (amended): each Counter32 delta is current - previous, taken modulo
\* 2^32 when the counter wrapped, the deltas since the seed sum to
\* (last - first) modulo 2^32, and seed 2^32 - 100 followed by 400 gives 500.
C16_Counter32Deltas == Counter32Law(U64(500))

\* C16 as stated: the same, with seed 2^32 - 100 followed by 400 giving 501.
C16_AsStated == Counter32Law(U64(501))

\* A wrapped delta is about to be returned after an unwrapped one was summed.
C16_Witness ==
    \E c \in Producers :
        /\ kPc[c] = "stored"
        /\ Returning(c).Valid
        /\ kPrev[c].Value = <<Digit - 100, Digit - 1, 0, 0>>
        /\ kCur[c] = U64(400)
        /\ hSeed[kKey[c]] = U64(400)
        /\ hSum[kKey[c]] = SubU64(kPrev[c].Value, U64(400))

\* C28: when Delta is called with a time that is not later than the stored
\* previous time of the key (now <= prev-time), it stores the current value
\* and time and returns Valid = false, so the emitted metric value is 0 and
\* no delta is computed across the non-monotonic step.
C28_NonMonotonicTimeReseeds ==
    \A c \in Producers :
        (kPc[c] = "stored" /\ kPrev[c] # NoCounterEntry
            /\ kNow[c] <= kPrev[c].SeenAt) =>
            /\ entries[kKey[c]] = [Value |-> kCur[c], SeenAt |-> kNow[c]]
            /\ ~Returning(c).Valid
            /\ Emitted(Returning(c)) = Zero64

\* A Delta whose time is before the time stored for its key, with a
\* different value, has stored its sample and is about to return.
C28_Witness ==
    \E c \in Producers :
        /\ kPc[c] = "stored"
        /\ kPrev[c] # NoCounterEntry
        /\ kNow[c] < kPrev[c].SeenAt
        /\ kPrev[c].Value = U64(400)
        /\ kCur[c] # U64(400)

\* C17: calls into the counter state run one at a time: between a Delta's
\* read of the entry and its return nobody else touches the map, so the entry
\* it overwrites is the one it read and the entry it stored is still there
\* when it computes its result.
C17_CallsSerialised ==
    /\ Cardinality({c \in Producers :
                       kPc[c] \in {"load", "store", "stored", "remove", "purge"}}) <= 1
    /\ \A c \in Producers :
          /\ kPc[c] = "store" => entries[kKey[c]] = kPrev[c]
          /\ kPc[c] = "stored" =>
                entries[kKey[c]] = [Value |-> kCur[c], SeenAt |-> kNow[c]]

\* One caller is inside Delta while the other waits for s.mu with a sample
\* for the same key.
C17_Witness ==
    \E c, c2 \in Producers :
        /\ kPc[c] = "store"
        /\ kPrev[c] # NoCounterEntry
        /\ kPc[c2] = "dLock"
        /\ kKey[c2] = kKey[c]

(***************************************************************************)
(* Trap receiver on its own: TrapReceiver.Start, Stop, the listen          *)
(* goroutine and the goroutine that calls Stop when ctx is cancelled.      *)
(***************************************************************************)
Stoppers == {"s1", "s2", "s3"}
\* Dropped traps that are told apart; further ones are counted as the last.
MaxDrops == 2

ReceiverFrame ==
    UNCHANGED <<schedVars, poolVars, appVars, workerVars, pipeVars, counterVars,
                 pollVars, operVars, decVars, matchVars, reuseVars, resolveVars, limitVars, waitVars, keyVars>>

\* New 441-453: nothing runs; stopCh, doneCh and output are open.
ReceiverInit ==
    /\ rvStart = "new"
    /\ rvRunning = FALSE
    /\ rvMu = "free"
    /\ rvListen = "off"
    /\ rvStopCloses = 0
    /\ rvOutCloses = 0
    /\ rvCtx = FALSE
    /\ rvWatcher = "off"
    /\ rvPc = [c \in Stoppers |-> "idle"]
    /\ rvCalls = [c \in Stoppers |-> 0]
    /\ rvReturned = 0
    /\ rvOut = 0
    /\ rvDrops = 0

\* Stop 533: the call goes on only while the receiver is running.
StopAlways(running) == TRUE
StopProceeds(running) == running

\* Stop 545: <-r.doneCh passes once the listen goroutine has closed doneCh.
DoneChClosed(listen) == listen = "done"

\* The cancel function of the ctx given to Start is called.
RvCancel ==
    /\ ~rvCtx
    /\ rvCtx' = TRUE
    /\ UNCHANGED <<rvStart, rvRunning, rvMu, rvListen, rvStopCloses, rvOutCloses,
                   rvWatcher, rvPc, rvCalls, rvReturned>>
    /\ UNCHANGED rvTrapVars
    /\ ReceiverFrame

\* Start 472-497: set running under r.mu, build the listener and launch the
\* goroutine that runs tl.Listen.
RvStartBegin ==
    /\ rvStart = "new"
    /\ rvMu = "free"
    /\ ~rvRunning
    /\ rvRunning' = TRUE
    /\ rvListen' = "binding"
    /\ rvStart' = "waiting"
    /\ UNCHANGED <<rvMu, rvStopCloses, rvOutCloses, rvCtx, rvWatcher, rvPc,
                   rvCalls, rvReturned>>
    /\ UNCHANGED rvTrapVars
    /\ ReceiverFrame

\* tl.Listen binds the socket, or fails to and returns (the goroutine then
\* closes doneCh, 494-495).
RvBind ==
    /\ rvListen = "binding"
    /\ rvListen' \in {"listening", "done"}
    /\ UNCHANGED <<rvStart, rvRunning, rvMu, rvStopCloses, rvOutCloses, rvCtx,
                   rvWatcher, rvPc, rvCalls, rvReturned>>
    /\ UNCHANGED rvTrapVars
    /\ ReceiverFrame

\* Start 500-501, 515-524: the listener is ready; launch the watcher and
\* return nil.
RvStartOk ==
    /\ rvStart = "waiting"
    /\ rvListen = "listening"
    /\ rvStart' = "ok"
    /\ rvWatcher' = "wait"
    /\ UNCHANGED <<rvRunning, rvMu, rvListen, rvStopCloses, rvOutCloses, rvCtx,
                   rvPc, rvCalls, rvReturned>>
    /\ UNCHANGED rvTrapVars
    /\ ReceiverFrame

\* Start 502-512: bind error, or ctx cancelled while waiting (the listener is
\* closed); running is cleared and Start returns the error.
RvStartFail ==
    /\ rvStart = "waiting"
    /\ rvMu = "free"
    /\ \/ rvListen = "done" /\ UNCHANGED rvListen
       \/ /\ rvCtx
          /\ rvListen' = IF rvListen = "done" THEN "done" ELSE "closed"
    /\ rvRunning' = FALSE
    /\ rvStart' = "failed"
    /\ UNCHANGED <<rvMu, rvStopCloses, rvOutCloses, rvCtx, rvWatcher, rvPc,
                   rvCalls, rvReturned>>
    /\ UNCHANGED rvTrapVars
    /\ ReceiverFrame

\* Start 493-496: the socket is closed, tl.Listen returns and the deferred
\* close(r.doneCh) runs.
RvListenExit ==
    /\ rvListen = "closed"
    /\ rvListen' = "done"
    /\ UNCHANGED <<rvStart, rvRunning, rvMu, rvStopCloses, rvOutCloses, rvCtx,
                   rvWatcher, rvPc, rvCalls, rvReturned>>
    /\ UNCHANGED rvTrapVars
    /\ ReceiverFrame

\* Stop 530-541 by caller k: take r.mu; return at once when not running, else
\* clear running, close the listener and stopCh and keep r.mu.
RvStopEnter(k) ==
    /\ rvMu = "free"
    /\ IF StopProceeds(rvRunning)
       THEN /\ rvRunning' = FALSE
            /\ rvListen' = IF rvListen = "done" THEN "done" ELSE "closed"
            /\ rvStopCloses' = rvStopCloses + 1
            /\ rvMu' = k
            /\ UNCHANGED rvReturned
       ELSE /\ rvReturned' = rvReturned + 1
            /\ UNCHANGED <<rvRunning, rvListen, rvStopCloses, rvMu>>

\* Stop 545-548 by caller k: doneCh is closed; close the output channel,
\* release r.mu and return.
RvStopFinish(k) ==
    /\ rvMu = k
    /\ DoneChClosed(rvListen)
    /\ rvOutCloses' = rvOutCloses + 1
    /\ rvMu' = "free"
    /\ rvReturned' = rvReturned + 1
    /\ UNCHANGED <<rvRunning, rvListen, rvStopCloses>>

\* A caller begins a call of Stop after Start has returned nil.
RvCallStop(c) ==
    /\ rvStart = "ok"
    /\ rvPc[c] = "idle"
    /\ rvCalls[c] < MaxStops
    /\ RvStopEnter(c)
    /\ rvCalls' = [rvCalls EXCEPT ![c] = @ + 1]
    /\ rvPc' = [rvPc EXCEPT ![c] = IF StopProceeds(rvRunning) THEN "held" ELSE "idle"]
    /\ UNCHANGED <<rvStart, rvOutCloses, rvCtx, rvWatcher>>
    /\ UNCHANGED rvTrapVars
    /\ ReceiverFrame

\* The second part of that call.
RvCallStopFinish(c) ==
    /\ rvPc[c] = "held"
    /\ RvStopFinish(c)
    /\ rvPc' = [rvPc EXCEPT ![c] = "idle"]
    /\ UNCHANGED <<rvStart, rvCtx, rvWatcher, rvCalls>>
    /\ UNCHANGED rvTrapVars
    /\ ReceiverFrame

OnCtxDoneReturn == "done"
\* Start 518-519: on <-ctx.Done() the watcher goes on to call r.Stop().
OnCtxDone == "stop"

\* Start 516-522: the watcher sees ctx.Done and is about to call Stop, or
\* sees stopCh closed and returns.
RvWatcherWake ==
    /\ rvWatcher = "wait"
    /\ \/ rvCtx /\ rvWatcher' = OnCtxDone
       \/ rvStopCloses > 0 /\ rvWatcher' = "done"
    /\ UNCHANGED <<rvStart, rvRunning, rvMu, rvListen, rvStopCloses, rvOutCloses,
                   rvCtx, rvPc, rvCalls, rvReturned>>
    /\ UNCHANGED rvTrapVars
    /\ ReceiverFrame

\* The watcher's call of Stop, first part.
RvWatcherStop ==
    /\ rvWatcher = "stop"
    /\ RvStopEnter("watcher")
    /\ rvWatcher' = IF StopProceeds(rvRunning) THEN "held" ELSE "done"
    /\ UNCHANGED <<rvStart, rvOutCloses, rvCtx, rvPc, rvCalls>>
    /\ UNCHANGED rvTrapVars
    /\ ReceiverFrame

\* The watcher's call of Stop, second part.
RvWatcherStopFinish ==
    /\ rvWatcher = "held"
    /\ RvStopFinish("watcher")
    /\ rvWatcher' = "done"
    /\ UNCHANGED <<rvStart, rvCtx, rvPc, rvCalls>>
    /\ UNCHANGED rvTrapVars
    /\ ReceiverFrame

rvCtl == <<rvStart, rvRunning, rvMu, rvListen, rvStopCloses, rvOutCloses,
           rvCtx, rvWatcher, rvPc, rvCalls, rvReturned>>

\* New 446, 450 and withDefaults 403-405: the capacity of r.output.
OutputCap == IF OutputBufferSize <= 0 THEN 10000 ELSE OutputBufferSize

SendAlwaysReady(n) == TRUE
\* handleTrap 560-561: the send case of the select is ready while the buffer
\* has room (nothing receives at the same instant).
SendReady(n) == n < OutputCap

\* handleTrap 553-568, called by tl.Listen for a packet it read: a parse
\* error returns at once; else the trap is sent when the buffer has room and
\* dropped by the default case when it has none.
RvHandleTrap ==
    /\ rvListen \in {"listening", "closed"}
    /\ \E parsed \in BOOLEAN :
          IF ~parsed
          THEN UNCHANGED rvTrapVars
          ELSE IF SendReady(rvOut)
          THEN rvOut' = rvOut + 1 /\ UNCHANGED rvDrops
          ELSE /\ rvDrops' = IF rvDrops < MaxDrops THEN rvDrops + 1 ELSE rvDrops
               /\ UNCHANGED rvOut
    /\ UNCHANGED rvCtl
    /\ ReceiverFrame

\* The consumer of Output() receives one buffered trap.
RvReceive ==
    /\ rvOut > 0
    /\ rvOut' = rvOut - 1
    /\ UNCHANGED <<rvDrops, rvCtl>>
    /\ ReceiverFrame

ReceiverNext ==
    \/ RvCancel
    \/ RvStartBegin
    \/ RvBind
    \/ RvStartOk
    \/ RvStartFail
    \/ RvListenExit
    \/ \E c \in Stoppers : RvCallStop(c)
    \/ \E c \in Stoppers : RvCallStopFinish(c)
    \/ RvWatcherWake
    \/ RvWatcherStop
    \/ RvWatcherStopFinish
    \/ RvHandleTrap
    \/ RvReceive

\* C13: after a successful Start, whatever Stop calls and cancellations
\* happen, stopCh and the output channel are each closed at most once, the
\* output channel is closed only after the listen goroutine has exited, and
\* once a Stop call has returned the socket is closed, the loop has exited
\* and the output channel has been closed exactly once.
C13_StopIdempotent ==
    rvStart = "ok" =>
        /\ rvStopCloses <= 1
        /\ rvOutCloses <= 1
        /\ rvOutCloses = 1 => rvListen = "done"
        /\ rvReturned > 0 =>
              (~rvRunning /\ rvListen = "done" /\ rvOutCloses = 1)

\* Every caller and the watcher have called Stop and all calls have returned.
C13_Witness ==
    /\ rvStart = "ok"
    /\ rvCtx
    /\ rvWatcher = "done"
    /\ \A c \in Stoppers : rvCalls[c] = MaxStops /\ rvPc[c] = "idle"
    /\ rvReturned = Cardinality(Stoppers) * MaxStops + 1
    /\ rvOutCloses = 1

\* C23: when the trap output channel is full, handling a received trap drops
\* that trap and returns without blocking (handleTrap can always take its
\* step while the listener runs, and at a full buffer that step leaves the
\* buffer as it is), and the number of buffered traps never exceeds the
\* configured output buffer size.
C23_FullBufferDrops ==
    /\ [](rvOut <= OutputBufferSize)
    /\ [](rvListen = "listening" => ENABLED RvHandleTrap)
    /\ [][(rvOut = OutputCap /\ rvListen \in {"listening", "closed"}) =>
            rvOut' <= rvOut]_vars
    /\ [][rvDrops' # rvDrops => (rvOut = OutputCap /\ rvOut' = rvOut)]_vars

\* MaxDrops traps were dropped at a full buffer, which is still full, while
\* the listener goes on.
C23_Witness ==
    /\ rvDrops = MaxDrops
    /\ rvOut = OutputCap
    /\ rvListen = "listening"

\* The goroutines of the receiver are scheduled: the listen goroutine returns
\* once its socket is closed, the watcher takes its steps, and a Stop call
\* that holds r.mu runs to its end.  Callers are free never to call Stop and
\* the ctx is free never to be cancelled.
ReceiverFair ==
    /\ WF_vars(RvListenExit)
    /\ WF_vars(RvWatcherWake)
    /\ WF_vars(RvWatcherStop)
    /\ WF_vars(RvWatcherStopFinish)
    /\ \A c \in Stoppers : WF_vars(RvCallStopFinish(c))

\* The receiver has stopped: not running, socket closed and listen loop
\* returned, output channel closed.
RvStopped == ~rvRunning /\ rvListen = "done" /\ rvOutCloses = 1

\* C22: after a successful Start, cancelling the ctx passed to Start
\* eventually stops the trap receiver and closes its output channel, with no
\* explicit Stop call needed.
C22_CancelStops == (rvStart = "ok" /\ rvCtx) ~> RvStopped

\* Start returned nil, the ctx was cancelled, nobody called Stop and the
\* watcher's own Stop has closed the output channel.
C22_Witness ==
    /\ rvStart = "ok"
    /\ rvCtx
    /\ \A c \in Stoppers : rvCalls[c] = 0
    /\ rvWatcher = "done"
    /\ RvStopped

(***************************************************************************)
(* SNMPPoller.Poll: one poll is a Get on the connection pool, the SNMP     *)
(* operation on the session obtained, and then Discard or Put.  The pool   *)
(* steps are the actions of the connection pool; Poll adds the operation   *)
(* and the choice between the two ways of giving the session back.         *)
(***************************************************************************)
PollFrame ==
    UNCHANGED <<schedVars, poolVars, appVars, workerVars, pipeVars, counterVars,
                 receiverVars, operVars, decVars, matchVars, reuseVars, resolveVars, limitVars, waitVars, keyVars>>

\* No caller is inside Poll.
PollInit == opRes = [c \in Clients |-> "none"]

\* Outcomes of doGet, doWalk and doBulkWalk: the PDUs with a nil or a
\* non-nil error.
OpResults == {"ok", "err"}

GiveBackAlwaysPut(res) == "Put"
\* Poll 92-99: a non-nil error discards the session, else it is put back.
GiveBack(res) == IF res = "err" THEN "Discard" ELSE "Put"

\* Poll 71: p.pool.Get(ctx, job.Hostname, job.DeviceConfig).
PollGet(c, h) ==
    /\ opRes[c] = "none"
    /\ GetStart(c, h)

\* Poll 71-74, inside Get: an error of Get returns from Poll with no session.
PollAcquire(c) == GetAcquire(c)

PollPop(c) == GetPop(c)

PollDial(c) == GetDial(c)

\* Poll 82-90: the SNMP operation on the session Get returned.
PollOp(c) ==
    /\ cPc[c] = "using"
    /\ opRes[c] = "none"
    /\ \E r \in OpResults : opRes' = [opRes EXCEPT ![c] = r]
    /\ PollFrame

\* Poll 92-95: p.pool.Discard(job.Hostname, conn).
PollDiscard(c) ==
    /\ opRes[c] # "none"
    /\ GiveBack(opRes[c]) = "Discard"
    /\ Discard(c)

\* Poll 99: p.pool.Put(job.Hostname, conn).
PollPut(c) ==
    /\ opRes[c] # "none"
    /\ GiveBack(opRes[c]) = "Put"
    /\ PutBegin(c)

PollPutStore(c) == PutStore(c)

\* Poll 95, 107: return the result; the locals of the call are dead.
PollReturn(c) ==
    /\ opRes[c] # "none"
    /\ cPc[c] = "idle"
    /\ opRes' = [opRes EXCEPT ![c] = "none"]
    /\ PollFrame

PollNext ==
    \/ PoolTick
    \/ \E c \in Clients, h \in Hosts : PollGet(c, h)
    \/ \E c \in Clients : PollAcquire(c)
    \/ \E c \in Clients : PollPop(c)
    \/ \E c \in Clients : PollDial(c)
    \/ \E c \in Clients : PollOp(c)
    \/ \E c \in Clients : PollDiscard(c)
    \/ \E c \in Clients : PollPut(c)
    \/ \E c \in Clients : PollPutStore(c)
    \/ \E c \in Clients : PollReturn(c)
    \/ CloseBegin
    \/ \E h \in Hosts : CloseDrain(h)
    \/ CloseReturn

(***************************************************************************)
(* SNMPPoller.Poll: properties.                                            *)
(***************************************************************************)
\* The caller holds the session Get returned to it.
HoldsSession(c) == cPc[c] \in {"using", "put"}

\* In this step caller c gives its session back through Discard: the session
\* is closed (it reaches no idle list) and one slot of its device is freed.
GivenByDiscard(c) ==
    /\ cPc[c] = "using"
    /\ cPc'[c] = "idle"
    /\ idle' = idle
    /\ sem'[cHost[c]] = sem[cHost[c]] - 1

\* In this step caller c enters Put with its session.
EntersPut(c) == cPc[c] = "using" /\ cPc'[c] = "put"

\* In this step the Put of caller c returns: one slot of its device is freed.
PutReturns(c) ==
    /\ cPc[c] = "put"
    /\ cPc'[c] = "idle"
    /\ sem'[cHost[c]] = sem[cHost[c]] - 1

\* C20: every session a poll obtains from the pool is given back exactly once
\* before Poll returns, by Discard when the SNMP operation returned an error
\* and by Put when it succeeded, so the slot of the device semaphore taken by
\* that poll is always released: a session leaves its poll only after the
\* operation, through Discard on an error and through Put on success, each
\* freeing one slot; a poll that gave its session back does nothing more on
\* the pool; Poll returns holding no session; the semaphore counts exactly
\* the callers inside Get or holding a session.
C20_SessionGivenBackOnce ==
    /\ [](\A h \in Hosts : sem[h] = SlotHolders(h))
    /\ [](\A c \in Clients : cPc[c] = "put" => opRes[c] = "ok")
    /\ [][\A c \in Clients :
            /\ (HoldsSession(c) /\ cPc'[c] # cPc[c]) =>
                  \/ opRes[c] = "err" /\ GivenByDiscard(c)
                  \/ opRes[c] = "ok" /\ EntersPut(c)
                  \/ opRes[c] = "ok" /\ PutReturns(c)
            /\ (opRes[c] # "none" /\ cPc[c] = "idle") => cPc'[c] = "idle"
            /\ (opRes[c] # "none" /\ opRes'[c] = "none") =>
                  (cPc[c] = "idle" /\ cConn[c] = NoConn)
         ]_vars

\* One poll has discarded its session after an error and another has put its
\* session back after a success; neither has returned yet, the session put
\* back is idle and no slot is taken.
C20_Witness ==
    /\ \E c \in Clients : opRes[c] = "err" /\ cPc[c] = "idle"
    /\ \E c \in Clients : opRes[c] = "ok" /\ cPc[c] = "idle"
    /\ \E h \in Hosts : Len(idle[h]) > 0
    /\ \A h \in Hosts : sem[h] = 0

(***************************************************************************)
(* The SNMP operation of a poll: isScalar, doGet, doWalk, doBulkWalk and   *)
(* LowestCommonOID.  An OID string is kept as the sequence of its parts    *)
(* between dots, as strings.Split gives them: "" is <<"">> and ".1.2" is   *)
(* <<"", "1", "2">>.                                                       *)
(***************************************************************************)
OperFrame ==
    UNCHANGED <<schedVars, poolVars, appVars, workerVars, pipeVars, counterVars,
                 receiverVars, pollVars, decVars, matchVars, reuseVars, resolveVars, limitVars, waitVars, keyVars>>

EmptyOid == <<"">>
\* AttributeDefinition.OID of the attributes an object can have: one without
\* OID, two columns of one table, one scalar of another subtree.
JobOids == {EmptyOid, <<"", "1", "2", "1">>, <<"", "1", "2", "2">>,
            <<"", "2", "1", "0">>}
NoJob == [index |-> << >>, version |-> "", attrs |-> {}, maxOids |-> 0]
NoOpResult == [pdus |-> << >>, err |-> FALSE]

\* The jobs polled: scalar or table object, SNMP v1 or v2c, any attribute
\* set, conn.MaxOids unset or 1.
Jobs == [index : {<< >>, <<"Integer">>}, version : {"1", "2c"},
         attrs : SUBSET JobOids, maxOids : {0, 1}]

\* isScalar 175-177.
isScalar(job) == Len(job.index) = 0

\* doGet 119-122: strings.HasSuffix(oid, ".0") and oid += ".0".
ScalarOid(oid) ==
    IF Len(oid) >= 2 /\ oid[Len(oid)] = "0" THEN oid ELSE Append(oid, "0")

\* strings.Join(parts, "."): no part and one empty part both give "".
Join(parts) == IF parts = << >> THEN EmptyOid ELSE parts

\* LowestCommonOID 202-216: the leading parts of a that b has as well.
RECURSIVE Matching(_, _)
Matching(a, b) ==
    IF a = << >> \/ b = << >> \/ Head(a) # Head(b)
    THEN << >>
    ELSE <<Head(a)>> \o Matching(Tail(a), Tail(b))

RECURSIVE TrimTo(_, _)
TrimTo(parts, others) ==
    IF others = << >> THEN parts
    ELSE TrimTo(Matching(parts, Head(others)), Tail(others))

\* LowestCommonOID 186-218 over the attributes in the order the range over
\* the map visits them.
LowestCommonOID(order) ==
    LET oids == SelectSeq(order, LAMBDA o : o # EmptyOid)
    IN  IF Len(oids) = 0 THEN EmptyOid
        ELSE IF Len(oids) = 1 THEN oids[1]
        ELSE Join(TrimTo(oids[1], Tail(oids)))

\* doGet 116-148: one request per batch of maxOids OIDs; the batch failAt
\* (none when 0) returns an error, the batches before it one PDU per OID.
doGet(order, connMaxOids, failAt) ==
    LET oids == [i \in 1..Len(order) |-> ScalarOid(order[i])]
        maxOids == IF connMaxOids <= 0 THEN 60 ELSE connMaxOids
    IN  IF Len(oids) = 0 THEN [pdus |-> << >>, err |-> FALSE]
        ELSE IF failAt = 0 THEN [pdus |-> oids, err |-> FALSE]
        ELSE [pdus |-> SubSeq(oids, 1, (failAt - 1) * maxOids), err |-> TRUE]

\* doGet 136: the number of requests sent when none fails.
Batches(n, connMaxOids) ==
    LET maxOids == IF connMaxOids <= 0 THEN 60 ELSE connMaxOids
    IN  (n + maxOids - 1) \div maxOids

\* What conn.WalkAll and conn.BulkWalkAll can return for a root.
WalkOutcomes(root) == [pdus : {<< >>, <<Append(root, "1")>>}, err : BOOLEAN]

\* doWalk 152-158 and doBulkWalk 161-167: no root is an error, else the
\* walk's own outcome.
doWalk(order, outcome) ==
    IF LowestCommonOID(order) = EmptyOid
    THEN [pdus |-> << >>, err |-> TRUE]
    ELSE outcome

doBulkWalk(order, outcome) == doWalk(order, outcome)

OperInit ==
    /\ oPc = "idle"
    /\ oJob = NoJob
    /\ oRes = NoOpResult

\* Poll 68-80: a job arrives and a session was obtained for it.
OperJob ==
    /\ oPc = "idle"
    /\ \E j \in Jobs : oJob' = j
    /\ oPc' = "job"
    /\ UNCHANGED oRes
    /\ OperFrame

\* Poll 82-83: a scalar object is read with Get.
OperGet ==
    /\ oPc = "job"
    /\ isScalar(oJob)
    /\ \E order \in Perms(oJob.attrs) :
       \E failAt \in 0..Batches(Len(order), oJob.maxOids) :
          oRes' = doGet(order, oJob.maxOids, failAt)
    /\ oPc' = "ran"
    /\ UNCHANGED oJob
    /\ OperFrame

\* Poll 84-85: a table object of an SNMPv1 device is walked.
OperWalk ==
    /\ oPc = "job"
    /\ ~isScalar(oJob)
    /\ oJob.version = "1"
    /\ \E order \in Perms(oJob.attrs) :
       \E outcome \in WalkOutcomes(LowestCommonOID(order)) :
          oRes' = doWalk(order, outcome)
    /\ oPc' = "ran"
    /\ UNCHANGED oJob
    /\ OperFrame

\* Poll 86-88: a table object of any other device is bulk-walked.
OperBulkWalk ==
    /\ oPc = "job"
    /\ ~isScalar(oJob)
    /\ oJob.version # "1"
    /\ \E order \in Perms(oJob.attrs) :
       \E outcome \in WalkOutcomes(LowestCommonOID(order)) :
          oRes' = doBulkWalk(order, outcome)
    /\ oPc' = "ran"
    /\ UNCHANGED oJob
    /\ OperFrame

\* Poll 89-108: the result is returned, with the error when there is one.
OperReturn ==
    /\ oPc = "ran"
    /\ oPc' = "idle"
    /\ oJob' = NoJob
    /\ oRes' = NoOpResult
    /\ OperFrame

OperNext ==
    \/ OperJob
    \/ OperGet
    \/ OperWalk
    \/ OperBulkWalk
    \/ OperReturn

\* C25: a poll job whose object definition has an empty attribute set fails
\* with an error result, for scalar objects (Get) as well as for table
\* objects (Walk and BulkWalk).
C25_EmptyAttributesFail ==
    (oPc = "ran" /\ oJob.attrs = {}) => oRes.err

(***************************************************************************)
(* SNMPDecoder.Decode called on its own, for every poll result of up to    *)
(* MaxPdus PDUs.                                                           *)
(***************************************************************************)
DecFrame ==
    UNCHANGED <<schedVars, poolVars, appVars, workerVars, pipeVars, counterVars,
                 receiverVars, pollVars, operVars, matchVars, reuseVars, resolveVars, limitVars, waitVars, keyVars>>

NoDecoded == [varbinds |-> << >>, err |-> FALSE]

DecInit ==
    /\ xPc = "idle"
    /\ xRaw = << >>
    /\ xOut = NoDecoded

\* The caller has a poll result to decode.
DecCall ==
    /\ xPc = "idle"
    /\ \E n \in 0..MaxPdus : \E raw \in RawResultsOfLen(n) : xRaw' = raw
    /\ xPc' = "called"
    /\ UNCHANGED xOut
    /\ DecFrame

\* Decode 107-166 runs and returns.
DecReturn ==
    /\ xPc = "called"
    /\ xOut' = Decode(xRaw)
    /\ xPc' = "returned"
    /\ UNCHANGED xRaw
    /\ DecFrame

\* The caller is done with the result.
DecDone ==
    /\ xPc = "returned"
    /\ xPc' = "idle"
    /\ xRaw' = << >>
    /\ xOut' = NoDecoded
    /\ DecFrame

DecNext ==
    \/ DecCall
    \/ DecReturn
    \/ DecDone

\* The PDU is one Parse converts: no error sentinel, inside the object.
Decodable(pdu) == ~IsErrorType(pdu.type) /\ matchAttribute(pdu.oid)

\* The conversion of the PDU's value to its attribute's syntax fails.
ConversionFails(pdu) ==
    Decodable(pdu) /\ ConvertValue(pdu.type, AttrDef[pdu.oid].Syntax).err

\* The positions of the PDUs of raw before k that Parse converts.
DecodableBefore(raw, k) == {j \in 1..(k - 1) : Decodable(raw[j])}

\* C26: when a value conversion fails for one PDU, Decode returns the
\* varbinds decoded before the failure, in PDU order, as a partial result
\* together with the error; it never returns an empty result in place of
\* varbinds that were already decoded.
C26_PartialResultWithError ==
    xPc = "returned" =>
        \A k \in 1..Len(xRaw) :
            (ConversionFails(xRaw[k])
               /\ \A j \in 1..(k - 1) : ~ConversionFails(xRaw[j])) =>
                /\ xOut.err
                /\ Len(xOut.varbinds) = Cardinality(DecodableBefore(xRaw, k))
                /\ {xOut.varbinds[i].Pdu : i \in 1..Len(xOut.varbinds)}
                       = DecodableBefore(xRaw, k)
                /\ \A i \in 1..Len(xOut.varbinds) :
                      LET vb == xOut.varbinds[i]
                      IN  /\ vb.OID = xRaw[vb.Pdu].oid
                          /\ vb.Instance = xRaw[vb.Pdu].inst
                          /\ \A i2 \in 1..(i - 1) : xOut.varbinds[i2].Pdu < vb.Pdu

\* Decode has returned for a result whose third PDU failed to convert after
\* two PDUs were decoded: both are in the partial result, with the error.
C26_Witness ==
    /\ xPc = "returned"
    /\ Len(xRaw) = 3
    /\ ConversionFails(xRaw[3])
    /\ Cardinality(DecodableBefore(xRaw, 3)) = 2
    /\ xOut.err
    /\ Len(xOut.varbinds) = 2

\* C40: a failed value conversion leaves the rest of the poll result to be
\* decoded: every PDU Parse can convert has its varbind in what Decode
\* returned, also the ones after a PDU whose conversion failed.
C40_DecodingGoesOnAfterFailure ==
    xPc = "returned" =>
        \A k \in 1..Len(xRaw) :
            (Decodable(xRaw[k]) /\ ~ConversionFails(xRaw[k])) =>
                \E i \in 1..Len(xOut.varbinds) : xOut.varbinds[i].Pdu = k

(***************************************************************************)
(* The OID and the instance of a Metric: normaliseOID, matchAttribute,     *)
(* Parse 116-124 and Build 136-144, with OIDs as the strings they are      *)
(* (kept as the sequence of their parts between dots).                     *)
(***************************************************************************)
MatchFrame ==
    UNCHANGED <<schedVars, poolVars, appVars, workerVars, pipeVars, counterVars,
                 receiverVars, pollVars, operVars, decVars, reuseVars, resolveVars, limitVars, waitVars, keyVars>>

\* Longest PDU OID, in parts.
MaxOidLen == 4
OidParts == {"0", "1", "2", "10"}

\* p.attrByOID: a table column, a column below another attribute's OID, and
\* a scalar configured with its ".0".
AttrByOID == {<<"1", "2">>, <<"1", "2", "10">>, <<"2", "0">>}

\* The names a PDU can have: up to MaxOidLen parts, with or without the
\* leading dot.
OidsOfLen(n) == [1..n -> OidParts]
PduNames ==
    UNION {OidsOfLen(n) \cup {<<"">> \o o : o \in OidsOfLen(n)} : n \in 1..MaxOidLen}

\* normaliseOID 169-172: one leading dot is stripped.
normaliseOID(oid) == IF Len(oid) > 1 /\ Head(oid) = "" THEN Tail(oid) ELSE oid

\* matchAttribute 146-165: the prefix scan from the right; k parts are left
\* in "remaining".
RECURSIVE PrefixScan(_, _)
PrefixScan(fullOID, k) ==
    IF k <= 1 THEN [found |-> FALSE, attr |-> << >>, instance |-> << >>]
    ELSE LET prefix == SubSeq(fullOID, 1, k - 1)
         IN  IF prefix \in AttrByOID
             THEN [found |-> TRUE, attr |-> prefix,
                   instance |-> SubSeq(fullOID, k, Len(fullOID))]
             ELSE PrefixScan(fullOID, k - 1)

\* matchAttribute 139-169: a direct match gives instance "0", else the
\* longest attribute OID that is a prefix and the rest as instance.
matchAttributeOID(fullOID) ==
    IF fullOID \in AttrByOID
    THEN [found |-> TRUE, attr |-> fullOID, instance |-> <<"0">>]
    ELSE PrefixScan(fullOID, Len(fullOID))

NoMetric == [produced |-> FALSE, OID |-> << >>, Instance |-> << >>]

\* Parse 95-124 and Build 136-144 for one PDU of a measurement attribute:
\* DecodedVarbind.OID is the normalised name, Metric.OID is vb.OID and
\* Metric.Instance the instance matchAttribute returned.
MetricOf(name) ==
    LET fullOID == normaliseOID(name)
        mt == matchAttributeOID(fullOID)
    IN  IF mt.found
        THEN [produced |-> TRUE, OID |-> fullOID, Instance |-> mt.instance]
        ELSE NoMetric

MatchInit ==
    /\ mPc = "idle"
    /\ mName = << >>
    /\ mMetric = NoMetric

\* A PDU is received.
MatchPdu ==
    /\ mPc = "idle"
    /\ \E name \in PduNames : mName' = name
    /\ mPc' = "pdu"
    /\ UNCHANGED mMetric
    /\ MatchFrame

\* Decode and Build run on it.
MatchBuild ==
    /\ mPc = "pdu"
    /\ mMetric' = MetricOf(mName)
    /\ mPc' = "metric"
    /\ UNCHANGED mName
    /\ MatchFrame

\* The Metric is handed on.
MatchDone ==
    /\ mPc = "metric"
    /\ mPc' = "idle"
    /\ mName' = << >>
    /\ mMetric' = NoMetric
    /\ MatchFrame

MatchNext ==
    \/ MatchPdu
    \/ MatchBuild
    \/ MatchDone

\* The string oid ends with "." followed by the string instance.
EndsWithDot(oid, instance) ==
    /\ Len(oid) > Len(instance)
    /\ SubSeq(oid, Len(oid) - Len(instance) + 1, Len(oid)) = instance

\* C27: every produced Metric with a non-empty instance carries that
\* instance verbatim as the suffix of its OID (Metric.OID ends with "."
\* followed by Metric.Instance), for every PDU OID the decoder can match,
\* including a PDU whose OID equals an attribute OID exactly.
C27_InstanceIsOidSuffix ==
    (mPc = "metric" /\ mMetric.produced /\ mMetric.Instance # <<"">>) =>
        EndsWithDot(mMetric.OID, mMetric.Instance)

\* The steps of the caller of App.Stop.
StopStep ==
    \/ StopCancel
    \/ StopSched
    \/ StopCloseJobs
    \/ StopWorkersWait
    \/ StopCloseRaw
    \/ StopTrapEnter
    \/ StopTrapFinish
    \/ StopWgWait
    \/ StopTransportClose
    \/ StopConnPoolClose

\* The application without Reload: a scheduler with devices dispatches at
\* any time or not at all, which covers every way a Reload can change the
\* devices.
AppLiveNext ==
    \/ StartTrap
    \/ StartAddFormatters
    \/ StartLaunch
    \/ ParentCancel
    \/ SchedDispatch
    \/ SchedExit
    \/ \E w \in Workers : WorkerStep(w)
    \/ \E w \in Workers : WorkerExit(w)
    \/ \E s \in Stages : StageStep(s)
    \/ \E s \in Stages : StageExit(s)
    \/ CloserClose
    \/ TrapArrive
    \/ TrapListenExit
    \/ WatcherWake
    \/ WatcherStopEnter
    \/ WatcherStopFinish
    \/ StopStep

\* The application with one poll result followed from rawCh on.
TraceNext == AppLiveNext \/ TraceArm

\* Every goroutine that can take a step takes one: the caller of Stop, the
\* scheduler seeing ctx.Done, each worker (its poll returns), each stage
\* (Decode, Produce, Format and the transport's Send return), the closer of
\* formattedCh, the trap listener and the trap watcher.  Nothing makes the
\* scheduler dispatch, a trap arrive, a Reload or a parent cancel happen.
AppFair ==
    /\ WF_vars(StopStep)
    /\ WF_vars(SchedExit)
    /\ \A w \in Workers : WF_vars(WorkerStep(w) \/ WorkerExit(w))
    /\ \A s \in Stages : WF_vars(StageStep(s) \/ StageExit(s))
    /\ WF_vars(CloserClose)
    /\ WF_vars(TrapListenExit)
    /\ WF_vars(WatcherWake \/ WatcherStopEnter \/ WatcherStopFinish)

\* C37: App.Stop always terminates after a successful Start: provided
\* every in-flight poll and every transport Send returns, all stage
\* goroutines exit and Stop returns, with or without an active trap
\* receiver and however full the inter-stage channels are.
C37_StopTerminates ==
    /\ (aPc = "stopping") ~> (aPc = "stopped")
    /\ [](aPc = "stopped" =>
            /\ wg = 0
            /\ schedGo = "done"
            /\ \A w \in Workers : wPc[w] = "done"
            /\ \A s \in Launched(trapStarted) : stPc[s] = "done"
            /\ closerPc = "done")

\* Stop has returned with the trap receiver started: every goroutine of
\* the pipeline has exited.
C37_Witness ==
    /\ aPc = "stopped"
    /\ trapStarted
    /\ wg = 0
    /\ \A s \in Stages : stPc[s] = "done"

\* C38: a poll result placed on rawCh is received by the decode stage, which
\* skips it or sends it on; it is never lost in a send on a closed channel;
\* transport.Send is called with its record at most once, and a record that
\* was sent stays sent; when Stop has returned the result is in no channel:
\* it was skipped by decode, produce or format, or its record was sent once.
C38_PlacedResultSentOnce ==
    /\ [](traced.at # "lost")
    /\ [](traced.sends = (IF traced.at = "sent" THEN 1 ELSE 0))
    /\ [](aPc = "stopped" => traced.at \in {"none", "armed", "sent", "skipped"})
    /\ [][traced.at = "raw" /\ traced'.at # "raw"
            => stPc["decode"] = "recv" /\ traced'.at \in {"decoded", "skipped"}]_vars
    /\ [][traced.at = "sent" => traced' = traced]_vars

\* Stop has returned, with the trap receiver started, after the record of
\* the followed poll result went through every stage to the transport.
C38_Witness ==
    /\ aPc = "stopped"
    /\ trapStarted
    /\ traced.at = "sent"
    /\ traced.sends = 1

\* C36: no job is ever submitted to the worker pool's job channel after
\* that channel has been closed: WorkerPool.Stop closes it only after
\* Scheduler.Stop has returned, and the scheduler submits nothing once its
\* Start has returned, however shutdown, dispatch and Reload interleave.
C36_NoSubmitAfterJobsClosed ==
    /\ []("jobs" \notin sentOnClosed)
    /\ [](closes["jobs"] > 0 =>
            (schedGo = "done" /\ Len(stopLog) >= 2 /\ stopLog[2] = "schedStop"))
    /\ [][(schedGo = "done" \/ closes["jobs"] > 0) =>
            buf'["jobs"] <= buf["jobs"]]_vars

\* The job channel was closed while jobs dispatched before the scheduler
\* returned were still queued, and a Reload had left the scheduler without
\* devices.
C36_Witness ==
    /\ closes["jobs"] = 1
    /\ schedGo = "done"
    /\ buf["jobs"] > 0
    /\ ~schedEntries

(***************************************************************************)
(* Reuse of idle sessions (session.go: Get 216-248, Put 252-273, Discard   *)
(* 278-286, popIdle 349-369).  One device pool of an open ConnectionPool   *)
(* whose sessions are told apart, with room for several idle sessions.     *)
(***************************************************************************)
ReuseFrame ==
    UNCHANGED <<schedVars, poolVars, appVars, workerVars, pipeVars, counterVars, receiverVars, pollVars, operVars, decVars, matchVars, resolveVars, limitVars, waitVars, keyVars>>

\* The capacity of dp.sem: the sessions of the device held at one time.
ReuseSlots == 3
\* The *gosnmp.GoSNMP values that Dial can hand out, enough for a new one
\* to exist whenever a slot is free.
Sessions == {"s1", "s2", "s3", "s4"}
\* The largest PoolOptions.MaxIdlePerDevice a pool is made with; the
\* smallest is 0, the option left unset.
ReuseMaxIdle == 2
\* defaults 158-161: MaxIdlePerDevice <= 0 becomes 2.
defaults(maxIdlePerDevice) ==
    IF maxIdlePerDevice <= 0 THEN 2 ELSE maxIdlePerDevice
\* The clock of this pool stops here.
ReuseMaxTime == 3
NoGet == [conn |-> NoConn, before |-> << >>, order |-> << >>, at |-> 0,
          after |-> << >>, called |-> FALSE]
NoPut == [conn |-> NoConn, len |-> 0, sem |-> 0, called |-> FALSE]

\* A pool made with MaxIdlePerDevice left unset; no device is in use.
ReuseInit ==
    /\ uIdle = << >>
    /\ uOrder = << >>
    /\ uHeld = {}
    /\ uNow = 0
    /\ uGot = NoGet
    /\ uOpt = 0
    /\ uSem = 0
    /\ uPut = NoPut

\* NewConnectionPool 195-206: the caller, holding no session of the old
\* pool, makes a new pool with MaxIdlePerDevice n and goes on with that one.
ReuseNew(n) ==
    /\ uHeld = {}
    /\ uOpt' = n
    /\ uIdle' = << >>
    /\ uOrder' = << >>
    /\ uSem' = 0
    /\ uGot' = NoGet
    /\ uPut' = NoPut
    /\ UNCHANGED <<uHeld, uNow>>
    /\ ReuseFrame

\* The sessions of the entries of a stack.
ConnsOf(st) == {st[i].conn : i \in 1..Len(st)}

\* The sessions of order that are still in the stack st.
RECURSIVE StillIdle(_, _)
StillIdle(order, st) ==
    IF order = << >> THEN << >>
    ELSE IF order[1] \in ConnsOf(st)
         THEN <<order[1]>> \o StillIdle(Tail(order), st)
         ELSE StillIdle(Tail(order), st)

\* Get 236-247 for a device with a free slot: reuse what popIdle returns,
\* otherwise Dial, which hands out a session that did not exist or fails.
ReuseGet ==
    /\ uSem < ReuseSlots
    /\ LET r == popIdle(uIdle, uNow)
       IN  /\ uIdle' = r.idle
           /\ uOrder' = StillIdle(uOrder, r.idle)
           /\ \E got \in IF r.conn # NoConn
                         THEN {r.conn}
                         ELSE (Sessions \ (uHeld \cup ConnsOf(uIdle)))
                                 \cup {NoConn} :
                 /\ uHeld' = IF got = NoConn THEN uHeld ELSE uHeld \cup {got}
                 /\ uSem' = IF got = NoConn THEN uSem ELSE uSem + 1
                 /\ uGot' = [conn |-> got, before |-> uIdle, order |-> uOrder,
                             at |-> uNow, after |-> r.idle, called |-> TRUE]
    /\ uPut' = NoPut
    /\ UNCHANGED <<uNow, uOpt>>
    /\ ReuseFrame

IdleStackNeverFull(st, maxIdlePerDevice) == FALSE
\* Put 266: len(dp.idle) >= p.opts.MaxIdlePerDevice.
IdleStackFull(st, maxIdlePerDevice) == Len(st) >= maxIdlePerDevice

\* Put 260-272: the session is closed when the idle stack is full,
\* otherwise appended with the current time; the deferred receive from
\* dp.sem releases the slot on either path.
ReusePut(s) ==
    /\ s \in uHeld
    /\ uHeld' = uHeld \ {s}
    /\ IF IdleStackFull(uIdle, defaults(uOpt))
       THEN UNCHANGED <<uIdle, uOrder>>
       ELSE /\ uIdle' = Append(uIdle, [conn |-> s, returnedAt |-> uNow])
            /\ uOrder' = Append(uOrder, s)
    /\ uSem' = uSem - 1
    /\ uPut' = [conn |-> s, len |-> Len(uIdle), sem |-> uSem, called |-> TRUE]
    /\ UNCHANGED <<uNow, uGot, uOpt>>
    /\ ReuseFrame

\* Discard 278-286: the session is closed and not kept.
ReuseDiscard(s) ==
    /\ s \in uHeld
    /\ uHeld' = uHeld \ {s}
    /\ uSem' = uSem - 1
    /\ uPut' = NoPut
    /\ UNCHANGED <<uIdle, uOrder, uNow, uGot, uOpt>>
    /\ ReuseFrame

\* Time passes.
ReuseTick ==
    /\ uNow < ReuseMaxTime
    /\ uNow' = uNow + 1
    /\ uPut' = NoPut
    /\ UNCHANGED <<uIdle, uOrder, uHeld, uGot, uOpt, uSem>>
    /\ ReuseFrame

ReuseNext ==
    \/ \E n \in 0..ReuseMaxIdle : ReuseNew(n)
    \/ ReuseGet
    \/ \E s \in Sessions : ReusePut(s)
    \/ \E s \in Sessions : ReuseDiscard(s)
    \/ ReuseTick

\* popIdle 361: the entry has been idle for longer than IdleTimeout at t.
IdleExpired(e, t) == IdleTimeout > 0 /\ t - e.returnedAt > IdleTimeout

\* The sessions of the stack st that can still be reused at time t.
Reusable(st, t) == {st[i].conn : i \in {j \in 1..Len(st) : ~IdleExpired(st[j], t)}}

\* Session s was Put after session r, by the order of the Put calls.
PutAfter(order, s, r) ==
    \E i, j \in 1..Len(order) : order[i] = r /\ order[j] = s /\ i < j

\* C30: idle sessions of a device are reused in LIFO order: Get returns
\* the most recently Put session that is still idle and not expired, before
\* any session that was Put earlier; the earlier ones stay idle, and a
\* session is dialled only when no idle one can be reused.
C30_IdleReuseIsLifo ==
    /\ ConnsOf(uIdle) = {uOrder[i] : i \in 1..Len(uOrder)}
    /\ Len(uIdle) = Len(uOrder)
    /\ uGot.called =>
          LET live == Reusable(uGot.before, uGot.at)
          IN  IF live = {}
              THEN /\ uGot.conn \notin ConnsOf(uGot.before)
                   /\ uGot.after = << >>
              ELSE /\ uGot.conn \in live
                   /\ \A r \in live \ {uGot.conn} :
                         /\ PutAfter(uGot.order, uGot.conn, r)
                         /\ r \in ConnsOf(uGot.after)

\* A Get found two reusable idle sessions, took the one Put last and left
\* the one Put first on the stack.
C30_Witness ==
    /\ uGot.called
    /\ Len(uGot.before) = 2
    /\ Reusable(uGot.before, uGot.at) = ConnsOf(uGot.before)
    /\ uGot.before[1].returnedAt < uGot.before[2].returnedAt
    /\ uGot.conn = uGot.before[2].conn
    /\ uGot.after = <<uGot.before[1]>>

\* C31: the idle list of a device never holds more than
\* max-idle-per-device sessions (2 when the option is left unset): a Put
\* that finds the list full closes the session instead of storing it, and
\* still releases the semaphore slot.
C31_IdleListBounded ==
    /\ Len(uIdle) <= (IF uOpt <= 0 THEN 2 ELSE uOpt)
    /\ uSem = Cardinality(uHeld)
    /\ uPut.called =>
          /\ uSem = uPut.sem - 1
          /\ uPut.conn \notin uHeld
          /\ IF uPut.len >= (IF uOpt <= 0 THEN 2 ELSE uOpt)
             THEN Len(uIdle) = uPut.len /\ uPut.conn \notin ConnsOf(uIdle)
             ELSE /\ Len(uIdle) = uPut.len + 1
                  /\ uIdle[Len(uIdle)].conn = uPut.conn

\* With the option left unset, a Put found two idle sessions, closed the
\* session it was given and released its slot.
C31_Witness ==
    /\ uOpt = 0
    /\ uPut.called
    /\ uPut.len = 2
    /\ Len(uIdle) = 2
    /\ uPut.conn \notin ConnsOf(uIdle)
    /\ uPut.sem = 1 /\ uSem = 0

(***************************************************************************)
(* ResolveJobs over the configuration hierarchy (resolve.go 19-78):        *)
(* devices -> device groups -> object groups -> object definitions.        *)
(***************************************************************************)
ResolveFrame ==
    UNCHANGED <<schedVars, poolVars, appVars, workerVars, pipeVars, counterVars, receiverVars, pollVars, operVars, decVars, matchVars, reuseVars, limitVars, waitVars, keyVars>>

\* The longest list of group names in a configuration.
MaxGroupList == 2
\* Names a list can hold; "gx" and "ox" are keys of no group, and "nodef"
\* is an object key without an object definition.
DeviceGroupNames == {"g1", "g2", "gx"}
ObjectGroupNames == {"o1", "o2", "ox"}
ObjectDefKeys == {"ifEntry", "system"}
SeqsUpTo(S, n) == UNION {[1..k -> S] : k \in 0..n}

\* cfg.ObjectGroups: two groups that share an object; one lists an
\* object key without a definition.
ObjectGroupsCfg ==
    [o \in {"o1", "o2"} |->
        IF o = "o1" THEN [Objects |-> <<"ifEntry", "nodef">>]
                    ELSE [Objects |-> <<"system", "ifEntry">>]]

\* A LoadedConfig with two devices.
LoadedConfig(da, db, g1, g2) ==
    [Devices      |-> [h \in Hosts |-> [DeviceGroups |-> IF h = "a" THEN da ELSE db]],
     DeviceGroups |-> [g \in {"g1", "g2"} |->
                          [ObjectGroups |-> IF g = "g1" THEN g1 ELSE g2]],
     ObjectGroups |-> ObjectGroupsCfg,
     ObjectDefs   |-> [k \in ObjectDefKeys |-> k]]

NoConfig == LoadedConfig(<< >>, << >>, << >>, << >>)

ResolveInit ==
    /\ zPc = "idle"
    /\ zCfg = NoConfig
    /\ zJobs = << >>

SeenAlwaysNew(seen, objKey) == TRUE
\* ResolveJobs 57-59: if seen[objKey] { continue }.
NotSeen(seen, objKey) == objKey \notin seen

\* ResolveJobs 56-73: the objects of one object group, after the jobs and
\* the seen set of the groups walked before it.
RECURSIVE WalkObjects(_, _, _, _)
WalkObjects(objs, cfg, hostname, acc) ==
    IF objs = << >> THEN acc
    ELSE LET objKey == Head(objs)
         IN  IF ~NotSeen(acc.seen, objKey)
             THEN WalkObjects(Tail(objs), cfg, hostname, acc)
             ELSE WalkObjects(Tail(objs), cfg, hostname,
                     [seen |-> acc.seen \cup {objKey},
                      jobs |-> IF objKey \in DOMAIN cfg.ObjectDefs
                               THEN Append(acc.jobs,
                                       [Hostname |-> hostname,
                                        ObjectDef |-> cfg.ObjectDefs[objKey]])
                               ELSE acc.jobs])

\* ResolveJobs 50-74: the object groups of one device group; an unknown
\* object group is skipped.
RECURSIVE WalkObjectGroups(_, _, _, _)
WalkObjectGroups(ogs, cfg, hostname, acc) ==
    IF ogs = << >> THEN acc
    ELSE WalkObjectGroups(Tail(ogs), cfg, hostname,
             IF Head(ogs) \in DOMAIN cfg.ObjectGroups
             THEN WalkObjects(cfg.ObjectGroups[Head(ogs)].Objects, cfg,
                              hostname, acc)
             ELSE acc)

\* ResolveJobs 44-75: the device groups of one device; an unknown device
\* group is skipped.
RECURSIVE WalkDeviceGroups(_, _, _, _)
WalkDeviceGroups(dgs, cfg, hostname, acc) ==
    IF dgs = << >> THEN acc
    ELSE WalkDeviceGroups(Tail(dgs), cfg, hostname,
             IF Head(dgs) \in DOMAIN cfg.DeviceGroups
             THEN WalkObjectGroups(cfg.DeviceGroups[Head(dgs)].ObjectGroups,
                                   cfg, hostname, acc)
             ELSE acc)

\* ResolveJobs 27-77: the hostnames in sorted order, a fresh seen map for
\* each, the jobs appended to one list.
RECURSIVE ResolveHosts(_, _, _)
ResolveHosts(hostnames, cfg, jobs) ==
    IF hostnames = << >> THEN jobs
    ELSE ResolveHosts(Tail(hostnames), cfg,
             WalkDeviceGroups(cfg.Devices[Head(hostnames)].DeviceGroups, cfg,
                              Head(hostnames),
                              [seen |-> {}, jobs |-> jobs]).jobs)

ResolveHierarchy(cfg) ==
    ResolveHosts(SelectSeq(HostOrder, LAMBDA h : h \in DOMAIN cfg.Devices),
                 cfg, << >>)

\* A configuration is loaded and resolved.
ResolveCall ==
    /\ zPc = "idle"
    /\ \E da, db \in SeqsUpTo(DeviceGroupNames, MaxGroupList) :
       \E g1, g2 \in SeqsUpTo(ObjectGroupNames, MaxGroupList) :
          /\ zCfg' = LoadedConfig(da, db, g1, g2)
          /\ zJobs' = ResolveHierarchy(LoadedConfig(da, db, g1, g2))
    /\ zPc' = "done"
    /\ ResolveFrame

\* The caller takes the jobs.
ResolveDone ==
    /\ zPc = "done"
    /\ zPc' = "idle"
    /\ zCfg' = NoConfig
    /\ zJobs' = << >>
    /\ ResolveFrame

ResolveNext ==
    \/ ResolveCall
    \/ ResolveDone

\* The elements of a list.
Range(seq) == {seq[i] : i \in 1..Len(seq)}

\* The lists that hold the elements of seq in another order.
Rearranged(seq) ==
    {[i \in 1..Len(seq) |-> seq[p[i]]] : p \in ListingsOf(1..Len(seq))}

\* The configurations that differ from cfg only in the order of the
\* device-group lists of the devices and of the object-group lists of the
\* device groups.
Reordered(cfg) ==
    {LoadedConfig(da, db, g1, g2) :
        da \in Rearranged(cfg.Devices["a"].DeviceGroups),
        db \in Rearranged(cfg.Devices["b"].DeviceGroups),
        g1 \in Rearranged(cfg.DeviceGroups["g1"].ObjectGroups),
        g2 \in Rearranged(cfg.DeviceGroups["g2"].ObjectGroups)}

\* The object keys a device reaches through a listed device group and an
\* object group listed by it.
ReachableKeys(cfg, h) ==
    UNION {Range(cfg.ObjectGroups[og].Objects) :
              og \in UNION {Range(cfg.DeviceGroups[dg].ObjectGroups) \cap DOMAIN cfg.ObjectGroups :
                               dg \in Range(cfg.Devices[h].DeviceGroups) \cap DOMAIN cfg.DeviceGroups}}

\* C32: ResolveJobs yields, for each device, exactly one PollJob per object
\* key that is reachable through some listed device group and object group
\* and has an object definition; the set of jobs is the same for any
\* permutation of the device-group and object-group lists, an object
\* reached by several paths appears once, and unknown group or object keys
\* are skipped.
C32_ResolveJobsOncePerObject ==
    zPc = "done" =>
        /\ \A i, j \in 1..Len(zJobs) : zJobs[i] = zJobs[j] => i = j
        /\ Range(zJobs) =
              {[Hostname |-> hk[1], ObjectDef |-> zCfg.ObjectDefs[hk[2]]] :
                  hk \in {x \in (DOMAIN zCfg.Devices) \X (DOMAIN zCfg.ObjectDefs) :
                             x[2] \in ReachableKeys(zCfg, x[1])}}
        /\ \A other \in Reordered(zCfg) :
              Range(ResolveHierarchy(other)) = Range(zJobs)

\* Device a lists an unknown device group and one whose two object groups
\* share an object and name an object without a definition; device b
\* reaches the shared object through two device groups.
C32_Witness ==
    /\ zPc = "done"
    /\ zCfg.Devices["a"].DeviceGroups = <<"gx", "g1">>
    /\ zCfg.Devices["b"].DeviceGroups = <<"g2", "g1">>
    /\ zCfg.DeviceGroups["g1"].ObjectGroups = <<"o1", "o2">>
    /\ zCfg.DeviceGroups["g2"].ObjectGroups = <<"ox", "o2">>
    /\ Len(zJobs) = 4

\* The stages of the poll path.
PollStages == {"decode", "produce", "format", "transport"}

LimitFrame ==
    UNCHANGED <<schedVars, poolVars, appVars, workerVars, pipeVars, counterVars, receiverVars, pollVars, operVars, decVars, matchVars, reuseVars, resolveVars, waitVars, keyVars>>

\* The largest DeviceConfig.MaxConcurrentPolls a Get carries; the smallest
\* is 0, the field left unset.
MaxConcurrent == 2
NoLimitGet == [hostname |-> "", maxConcurrent |-> 0, inFlight |-> 0]

\* NewConnectionPool 195-206: p.pools is empty.
LimitInit ==
    /\ qCap = [h \in Hosts |-> 0]
    /\ qSem = [h \in Hosts |-> 0]
    /\ qGot = NoLimitGet

\* getOrCreatePool 317-340: an existing device pool is returned as it is;
\* a new one gets a semaphore of the capacity asked for.
getOrCreatePool(caps, hostname, maxConcurrent) ==
    IF caps[hostname] > 0
    THEN caps
    ELSE [caps EXCEPT ![hostname] = SemSize(maxConcurrent)]

\* Get 216-247 of an open pool with a session to hand out: the device pool
\* is looked up or made, and the send on dp.sem goes through while the
\* channel has room.
LimitGet(h, maxConcurrent) ==
    /\ qCap' = getOrCreatePool(qCap, h, maxConcurrent)
    /\ qSem[h] < qCap'[h]
    /\ qSem' = [qSem EXCEPT ![h] = @ + 1]
    /\ qGot' = [hostname |-> h, maxConcurrent |-> maxConcurrent,
                inFlight |-> qSem[h] + 1]
    /\ LimitFrame

\* Get 216-233 when dp.sem is full: the caller waits until its deadline
\* and gets an error; the device pool has been made all the same.
LimitGetTimeout(h, maxConcurrent) ==
    /\ qCap' = getOrCreatePool(qCap, h, maxConcurrent)
    /\ qSem[h] >= qCap'[h]
    /\ UNCHANGED <<qSem, qGot>>
    /\ LimitFrame

\* Put 260 and Discard 285: the slot is released.
LimitRelease(h) ==
    /\ qSem[h] > 0
    /\ qSem' = [qSem EXCEPT ![h] = @ - 1]
    /\ UNCHANGED <<qCap, qGot>>
    /\ LimitFrame

LimitNext ==
    \/ \E h \in Hosts : \E m \in 0..MaxConcurrent : LimitGet(h, m)
    \/ \E h \in Hosts : \E m \in 0..MaxConcurrent : LimitGetTimeout(h, m)
    \/ \E h \in Hosts : LimitRelease(h)

\* C34: the concurrency limit enforced for a hostname is the
\* max-concurrent-polls of the device configuration passed to Get: a Get
\* that carries a value (4 when unset) never hands out a session that
\* brings the sessions in flight for the hostname above that value, also
\* when earlier Gets for the hostname carried another value.
C34_LimitFollowsConfig ==
    qGot.hostname # "" =>
        qGot.inFlight <= (IF qGot.maxConcurrent <= 0 THEN 4
                          ELSE qGot.maxConcurrent)

(***************************************************************************)
(* Callers waiting in Get for a slot of one device (session.go: Get        *)
(* 216-248, Put 252-273, Discard 278-286, Close 289-298).                  *)
(***************************************************************************)
WaitFrame ==
    UNCHANGED <<schedVars, poolVars, appVars, workerVars, pipeVars, counterVars, receiverVars, pollVars, operVars, decVars, matchVars, reuseVars, resolveVars, limitVars, keyVars>>

\* cap(dp.sem) of the device.
WaitSlots == 1
GetOutcomes == {"none", "session", "dial", "deadline", "closed"}

WaitInit ==
    /\ tPc = [c \in Clients |-> "idle"]
    /\ tSem = 0
    /\ tCtx = [c \in Clients |-> FALSE]
    /\ tClosed = FALSE
    /\ tWaited = [c \in Clients |-> FALSE]
    /\ tRes = [c \in Clients |-> "none"]

\* Get 217-224 with a context that is not done yet: the fast path turns the
\* call away when the pool is closed, else the caller goes to the select.
WaitGetStart(c) ==
    /\ tPc[c] = "idle"
    /\ tCtx' = [tCtx EXCEPT ![c] = FALSE]
    /\ IF FastPathRejects(tClosed)
       THEN /\ tRes' = [tRes EXCEPT ![c] = "closed"]
            /\ UNCHANGED <<tPc, tWaited>>
       ELSE /\ tPc' = [tPc EXCEPT ![c] = "acquire"]
            /\ tWaited' = [tWaited EXCEPT ![c] = FALSE]
            /\ tRes' = [tRes EXCEPT ![c] = "none"]
    /\ UNCHANGED <<tSem, tClosed>>
    /\ WaitFrame

\* The caller is parked in the select of Get 227-233: no case is ready.
WaitPark(c) ==
    /\ tPc[c] = "acquire"
    /\ tSem >= WaitSlots /\ ~tCtx[c] /\ ~tClosed
    /\ ~tWaited[c]
    /\ tWaited' = [tWaited EXCEPT ![c] = TRUE]
    /\ UNCHANGED <<tPc, tSem, tCtx, tClosed, tRes>>
    /\ WaitFrame

\* Get 228 and 236-247: the send on dp.sem goes through; the caller gets an
\* idle or a dialled session, or Dial fails and the slot is released.
WaitAcquire(c) ==
    /\ tPc[c] = "acquire"
    /\ tSem < WaitSlots
    /\ \/ /\ tSem' = tSem + 1
          /\ tPc' = [tPc EXCEPT ![c] = "using"]
          /\ tRes' = [tRes EXCEPT ![c] = "session"]
       \/ /\ tPc' = [tPc EXCEPT ![c] = "idle"]
          /\ tRes' = [tRes EXCEPT ![c] = "dial"]
          /\ UNCHANGED tSem
    /\ UNCHANGED <<tCtx, tClosed, tWaited>>
    /\ WaitFrame

\* Get 229-230: case <-ctx.Done() returns ctx.Err().
WaitCtxDone(c) ==
    /\ tPc[c] = "acquire"
    /\ tCtx[c]
    /\ tPc' = [tPc EXCEPT ![c] = "idle"]
    /\ tRes' = [tRes EXCEPT ![c] = "deadline"]
    /\ UNCHANGED <<tSem, tCtx, tClosed, tWaited>>
    /\ WaitFrame

ClosedIgnored(closed) == FALSE
\* Get 231: case <-p.closed is ready once the channel is closed.
ClosedReady(closed) == closed

\* Get 231-232: case <-p.closed returns the error "pool closed".
WaitClosed(c) ==
    /\ tPc[c] = "acquire"
    /\ ClosedReady(tClosed)
    /\ tPc' = [tPc EXCEPT ![c] = "idle"]
    /\ tRes' = [tRes EXCEPT ![c] = "closed"]
    /\ UNCHANGED <<tSem, tCtx, tClosed, tWaited>>
    /\ WaitFrame

\* Put 260 and Discard 285: the caller gives its session back and the slot
\* is released.
WaitRelease(c) ==
    /\ tPc[c] = "using"
    /\ tSem' = tSem - 1
    /\ tPc' = [tPc EXCEPT ![c] = "idle"]
    /\ UNCHANGED <<tCtx, tClosed, tWaited, tRes>>
    /\ WaitFrame

\* The deadline of the context of a waiting caller passes.
WaitDeadline(c) ==
    /\ tPc[c] = "acquire"
    /\ ~tCtx[c]
    /\ tCtx' = [tCtx EXCEPT ![c] = TRUE]
    /\ UNCHANGED <<tPc, tSem, tClosed, tWaited, tRes>>
    /\ WaitFrame

\* Close 290-295: p.closed is closed, once.
WaitClose ==
    /\ ~tClosed
    /\ tClosed' = TRUE
    /\ UNCHANGED <<tPc, tSem, tCtx, tWaited, tRes>>
    /\ WaitFrame

WaitNext ==
    \/ \E c \in Clients : WaitGetStart(c)
    \/ \E c \in Clients : WaitPark(c)
    \/ \E c \in Clients : WaitAcquire(c)
    \/ \E c \in Clients : WaitCtxDone(c)
    \/ \E c \in Clients : WaitClosed(c)
    \/ \E c \in Clients : WaitRelease(c)
    \/ \E c \in Clients : WaitDeadline(c)
    \/ WaitClose

\* A goroutine in a select runs when one of its cases is ready: a send on
\* dp.sem with room, a done context, a closed p.closed.  Nothing makes a
\* caller give its session back or a deadline pass.
WaitFair ==
    \A c \in Clients :
        /\ WF_vars(WaitAcquire(c))
        /\ WF_vars(WaitCtxDone(c))
        /\ WF_vars(WaitClosed(c))

\* C35: a Get that is blocked because all slots of a device are in use
\* does not block forever: it does not stay blocked while a slot released
\* by Put or Discard stays free, and it returns a failure once the
\* caller's deadline has passed or the pool has been closed; it leaves the
\* select with a session only by taking a free slot.
C35_BlockedGetReturns ==
    /\ \A c \in Clients :
          /\ (tPc[c] = "acquire" /\ tCtx[c]) ~> (tPc[c] # "acquire")
          /\ (tPc[c] = "acquire" /\ tClosed) ~> (tPc[c] # "acquire")
          /\ ~<>[](tPc[c] = "acquire" /\ tSem < WaitSlots)
    /\ [][\A c \in Clients :
             (tPc[c] = "acquire" /\ tPc'[c] # "acquire") =>
                 \/ /\ tSem < WaitSlots
                    /\ \/ tPc'[c] = "using" /\ tSem' = tSem + 1
                       \/ tPc'[c] = "idle" /\ tRes'[c] = "dial" /\ tSem' = tSem
                 \/ /\ tCtx[c] \/ tClosed
                    /\ tPc'[c] = "idle" /\ tSem' = tSem
                    /\ tRes'[c] \in {"deadline", "closed"}
         ]_vars

\* Three callers found the only slot taken: one got a session after the
\* slot was released, one returned when its deadline passed, one when the
\* pool was closed.
C35_Witness ==
    /\ \A c \in Clients : tWaited[c]
    /\ tRes["c1"] = "session" /\ tPc["c1"] = "using"
    /\ tRes["c2"] = "deadline"
    /\ tRes["c3"] = "closed"

(***************************************************************************)
(* Specifications.                                                         *)
(***************************************************************************)
\* Every component starts as constructed; a specification runs one of them.
(***************************************************************************)
(* Counter keys: the objects polled on one device are produced one poll    *)
(* result at a time against one CounterState; Build names the entry of a   *)
(* counter by device hostname, attribute name and instance.                *)
(***************************************************************************)
KeyFrame ==
    UNCHANGED <<schedVars, poolVars, appVars, workerVars, pipeVars, counterVars, receiverVars, pollVars, operVars, decVars, matchVars, reuseVars, resolveVars, limitVars, waitVars>>

MaxKeyPolls == 3    \* poll results produced in one run
KeyMaxTime == 2     \* latest CollectedAt

\* The counter attributes of the two interface objects as the
\* architecture document defines them (snmp-collector-architecture.md
\* 985-988, 1052-1063): ifEntry and the ifXEntry that augments it give
\* their octet counters the same metric name.
KeyObjects ==
    [a \in {"ifInOctets", "ifHCInOctets", "ifHCOutOctets"} |->
        CASE a = "ifInOctets" ->
                [Object |-> "IF-MIB::ifEntry", Name |-> "netif.bytes.in",
                 Syntax |-> "Counter32"]
          [] a = "ifHCInOctets" ->
                [Object |-> "IF-MIB::ifXEntry", Name |-> "netif.bytes.in",
                 Syntax |-> "Counter64"]
          [] a = "ifHCOutOctets" ->
                [Object |-> "IF-MIB::ifXEntry", Name |-> "netif.bytes.out",
                 Syntax |-> "Counter64"]]
KeyAttrs == DOMAIN KeyObjects
KeyNames == {KeyObjects[a].Name : a \in KeyAttrs}
KeyHosts == {"a", "b"}
KeySamples == {U64(400), U64(500)}

\* poll.go 110-114: the key of a counter varbind.
CounterKey(hostname, attributeName, instance) ==
    [Device |-> hostname, Attribute |-> attributeName, Instance |-> instance]
AllCounterKeys == [Device : KeyHosts, Attribute : KeyNames, Instance : Instances]

NoDelta == [key |-> CounterKey("", "", ""), attr |-> "none", prev |-> "none",
            valid |-> FALSE, delta |-> Zero64]

\* NewCounterState: no entry.
KeyInit ==
    /\ yEntries = [k \in AllCounterKeys |-> NoCounterEntry]
    /\ yNow = 0
    /\ yPolls = 0
    /\ ySrc = [k \in AllCounterKeys |-> "none"]
    /\ yOut = NoDelta

\* Time passes between two polls.
KeyTick ==
    /\ yNow < KeyMaxTime
    /\ yNow' = yNow + 1
    /\ UNCHANGED <<yEntries, yPolls, ySrc, yOut>>
    /\ KeyFrame

\* Build 107-122 for the counter varbind of attribute a, instance inst, in a
\* poll result of the object of a on device h: Delta stores the sample under
\* the key and compares it with what the key held.
KeyProduce(h, a, inst, v) ==
    /\ yPolls < MaxKeyPolls
    /\ IsCounterSyntax(KeyObjects[a].Syntax)
    /\ LET key == CounterKey(h, KeyObjects[a].Name, inst)
           dr == DeltaOf(yEntries[key], v, yNow,
                         WrapForSyntax(KeyObjects[a].Syntax))
       IN  /\ yEntries' = [yEntries EXCEPT
                              ![key] = [Value |-> v, SeenAt |-> yNow]]
           /\ ySrc' = [ySrc EXCEPT ![key] = a]
           /\ yOut' = [key |-> key, attr |-> a, prev |-> ySrc[key],
                       valid |-> dr.Valid, delta |-> dr.Delta]
    /\ yPolls' = yPolls + 1
    /\ UNCHANGED yNow
    /\ KeyFrame

KeyNext ==
    \/ KeyTick
    \/ \E h \in KeyHosts, a \in KeyAttrs, inst \in Instances, v \in KeySamples :
           KeyProduce(h, a, inst, v)

\* C39: the entry a Delta call of Build compares its sample with holds a
\* sample of the same attribute, or nothing: two attributes of one device
\* and instance never share a counter-state entry.
C39_DeltaWithinOneAttribute == yOut.prev \in {"none", yOut.attr}

Init == SchedInit /\ PoolInit /\ AppInit /\ WorkerInit /\ PipeInit
        /\ ReceiverInit /\ PollInit /\ OperInit
        /\ DecInit /\ MatchInit /\ ReuseInit /\ ResolveInit
        /\ LimitInit /\ WaitInit /\ KeyInit

SpecSched == Init /\ [][SchedNext]_vars
SpecPool == Init /\ [][PoolNext]_vars
SpecApp == Init /\ [][AppNext]_vars
SpecTrace == Init /\ [][TraceNext]_vars
SpecAppLive == Init /\ [][AppLiveNext]_vars /\ AppFair
SpecWorker == Init /\ [][WorkerNext]_vars
SpecPipe == Init /\ [][PipeNext]_vars
SpecReceiver == Init /\ [][ReceiverNext]_vars
SpecReceiverLive == SpecReceiver /\ ReceiverFair
SpecCounter == Init /\ [][CounterNext]_vars
SpecPoll == Init /\ [][PollNext]_vars
SpecOper == Init /\ [][OperNext]_vars
SpecDec == Init /\ [][DecNext]_vars
SpecMatch == Init /\ [][MatchNext]_vars
SpecReuse == Init /\ [][ReuseNext]_vars
SpecResolve == Init /\ [][ResolveNext]_vars
SpecLimit == Init /\ [][LimitNext]_vars
SpecKey == Init /\ [][KeyNext]_vars
SpecWait == Init /\ [][WaitNext]_vars
SpecWaitLive == SpecWait /\ WaitFair

====
